---- MODULE Spec2Model ----
(***************************************************************************)
(* Clusternet override engine (pkg/localizer): the Localizer resolves a    *)
(* Feed to its target, orders the Globalizations and Localizations that    *)
(* are labelled for that target, patches the entries of a Description and  *)
(* reconciles the declarations (ApplyNow callbacks, finalizer removal).    *)
(***************************************************************************)
EXTENDS FiniteSets, Integers, Sequences, TLC

----------------------------------------------------------------------------
(* Bounds of the model *)

\* priorities are drawn from 1..MaxPriority
MaxPriority == 2
\* a Description holds 1..MaxEntries entries
MaxEntries == 2

(* Program constants *)

\* time.Time.Second() is the second offset within the minute, in [0, 59]
SecondsPerMinute == 60

\* the priorities of the sample Localizations of the Deployment my-nginx
LowerPriority == 300
HigherPriority == 600

Priorities == 1..MaxPriority
\* creation instants in whole seconds: the last second of a minute and the
\* first second of the next one
Instants == {SecondsPerMinute - 1, SecondsPerMinute}

----------------------------------------------------------------------------
(* Objects *)

\* chartKind.Kind
chartKind == "HelmChart"

GlobNames == {"g1", "g2"}
LocNames == {"l1", "l2"}
Namespaces == {"ns1", "ns2"}

\* a Feed is a resource coordinate; name stands for namespace/name
ChartFeeds == {[kind |-> chartKind, name |-> "c1"], [kind |-> chartKind, name |-> "c2"]}
ManifestFeeds == {[kind |-> "Deployment", name |-> "m1"], [kind |-> "Deployment", name |-> "m2"]}
Feeds == ChartFeeds \cup ManifestFeeds
NoFeed == [kind |-> "", name |-> ""]

\* the UID of the chart or manifest a feed names
UIDOf(feed) == <<feed.kind, feed.name>>

\* the index label {string(uid): kind} of a declaration that targets feed
IndexLabel(feed) == <<UIDOf(feed), feed.kind>>

Keys == {"replicas", "label", "annotation"}
Absent == "absent"
EmptyDoc == [k \in Keys |-> Absent]

Perms(S) == {f \in [1..Cardinality(S) -> S] : \A x \in S : \E i \in 1..Cardinality(S) : f[i] = x}

Range(s) == {s[i] : i \in 1..Len(s)}

RECURSIVE Flatten(_)
Flatten(ss) == IF ss = <<>> THEN <<>> ELSE Head(ss) \o Flatten(Tail(ss))

----------------------------------------------------------------------------
(* Override configs as authored in the sample declarations *)

PatchOp(op, key, val) == [op |-> op, key |-> key, val |-> val]

\* an OverrideConfig: wf tells whether Value parses as YAML/JSON of the
\* shape its Type needs, ops is the parsed payload
OverrideConfig(name, type, ops) == [name |-> name, type |-> type, wf |-> TRUE, ops |-> ops]

\* the same config with a payload that does not parse
Malformed(cfg) == [cfg EXCEPT !.wf = FALSE, !.ops = <<>>]

\* Spec.Overrides of the declaration called n when it targets feed:
\* Helm values for a chart, MergePatch/JSONPatch for a manifest
SampleOverrides(n, feed) ==
    IF feed.kind = chartKind
    THEN CASE n = "g1" -> << OverrideConfig("g1/1", "Helm", << PatchOp("set", "replicas", "1") >>) >>
           [] n = "g2" -> << OverrideConfig("g2/1", "Helm", << PatchOp("set", "replicas", "5") >>) >>
           [] n = "l1" -> << OverrideConfig("l1/1", "Helm", << PatchOp("set", "label", "clusternet-5l82l") >>),
                             OverrideConfig("l1/2", "Helm", << PatchOp("set", "replicas", "2") >>) >>
           [] OTHER    -> << OverrideConfig("l2/1", "Helm", << PatchOp("set", "replicas", "3"),
                                                              PatchOp("set", "annotation", "foo=bar") >>) >>
    ELSE CASE n = "g1" -> << OverrideConfig("g1/1", "MergePatch", << PatchOp("merge", "replicas", "1") >>) >>
           [] n = "g2" -> << OverrideConfig("g2/1", "MergePatch", << PatchOp("merge", "replicas", "5") >>) >>
           [] n = "l1" -> << OverrideConfig("l1/1", "MergePatch", << PatchOp("merge", "label", "clusternet-5l82l") >>),
                             OverrideConfig("l1/2", "JSONPatch", << PatchOp("replace", "replicas", "1") >>) >>
           [] OTHER    -> << OverrideConfig("l2/1", "JSONPatch", << PatchOp("replace", "replicas", "3"),
                                                                   PatchOp("add", "annotation", "foo=bar") >>) >>

\* known.AppFinalizer, the finalizer token of the engine
AppFinalizer == "apps.clusternet.io/finalizer"

\* a Globalization or Localization in the informer cache.  deleted stands for
\* DeletionTimestamp != nil; labels holds the index label injected for the
\* target; namespace is "" for the cluster-scoped Globalization; malformed
\* tells that the payloads of its override configs do not parse
Declaration(n, ns, prio, created, deleted, policy, feed, malformed) ==
    [name |-> n, namespace |-> ns, priority |-> prio, creation |-> created,
     deleted |-> deleted, policy |-> policy, feed |-> feed,
     labels |-> {IndexLabel(feed)}, finalizers |-> {AppFinalizer},
     malformed |-> malformed]

\* decl.Spec.Overrides
Overrides(decl) ==
    LET authored == SampleOverrides(decl.name, decl.feed)
    IN  IF decl.malformed
        THEN [i \in 1..Len(authored) |-> Malformed(authored[i])]
        ELSE authored

----------------------------------------------------------------------------
(* sort.SliceStable: insertion sort, as the library runs it on a slice of  *)
(* fewer than 20 elements.  lt is the less function as a function on pairs *)

Swap(s, i, j) == [s EXCEPT ![i] = s[j], ![j] = s[i]]

RECURSIVE SinkLeft(_, _, _)
SinkLeft(s, j, lt) ==
    IF j > 1 /\ lt[<<s[j], s[j - 1]>>]
    THEN SinkLeft(Swap(s, j, j - 1), j - 1, lt)
    ELSE s

RECURSIVE InsertionSortFrom(_, _, _)
InsertionSortFrom(s, i, lt) ==
    IF i > Len(s) THEN s ELSE InsertionSortFrom(SinkLeft(s, i, lt), i + 1, lt)

SliceStable(s, lt) == InsertionSortFrom(s, 2, lt)

\* CreationTimestamp.Second()
Second(t) == t % SecondsPerMinute

\* globLess with the priorities compared the wrong way round
globLessDescending(a, b) ==
    IF a.priority = b.priority
    THEN Second(a.creation) < Second(b.creation)
    ELSE a.priority > b.priority

\* the less function of the Globalizations' sort
globLess(a, b) ==
    IF a.priority = b.priority
    THEN Second(a.creation) < Second(b.creation)
    ELSE a.priority < b.priority

\* locLess with the priorities compared the wrong way round
locLessDescending(a, b) ==
    IF a.priority = b.priority
    THEN Second(a.creation) < Second(b.creation)
    ELSE a.priority > b.priority

\* the less function of the Localizations' sort
locLess(a, b) ==
    IF a.priority = b.priority
    THEN Second(a.creation) < Second(b.creation)
    ELSE a.priority < b.priority

----------------------------------------------------------------------------
(* State *)

VARIABLES
    globs,      \* informer cache of Globalizations: name -> Declaration
    locs,       \* informer cache of Localizations: name -> Declaration
    charts,     \* feeds of the HelmCharts in the chart lister
    manifests,  \* feeds that have a Manifest in the reserved namespace
    got,        \* the last call of getOverrides: its arguments, what the
                \* listers returned, and its result
    desc,       \* the Description a build hands to ApplyOverridesToDescription
    applied,    \* the last run of ApplyOverridesToDescription on desc: the
                \* Description as the run left it and the errors it returned
    previous,   \* the run before that one
    rec,        \* the last reconcile: the declaration the handler was handed,
                \* what the handler did and what it returned
    run,        \* the call of Localizer.Run: where it stands, the caches that
                \* report synced, the stop channel and the two controllers
    build,      \* a run of ApplyOverridesToDescription on desc that goes on
                \* while declarations are deleted: the entry it is at, what it
                \* has written so far and what the caches held at each read
    bind,       \* the call of DefaultBinder.Bind: its arguments, the object it
                \* sent, the status it returned and the Subscription as the
                \* API server holds it
    agent,      \* the Agent of a child cluster: its fields, where Run and run
                \* stand, the contexts, the Secret of the child cluster and the
                \* registration request at the parent
    helm        \* the helm helpers: the installed release, the HelmRelease and
                \* the values at hand, the last call and what it returned

vars == <<globs, locs, charts, manifests, got, desc, applied, previous, rec, run, build, bind, agent, helm>>

----------------------------------------------------------------------------
(* Listers *)

\* the cache lists the objects that match in no particular order: the
\* sequences that hold each element of S once
Listings(S) == Perms(S)

\* what globLister.List(selector) may return: the cached Globalizations that
\* carry the label
GlobListings(label) ==
    Listings({globs[n] : n \in {m \in DOMAIN globs : label \in globs[m].labels}})

\* LocListings listing the Localizations of all namespaces
LocListingsOfAllNamespaces(namespace, label) ==
    Listings({locs[n] : n \in {m \in DOMAIN locs : label \in locs[m].labels}})

\* what locLister.Localizations(namespace).List(selector) may return
LocListings(namespace, label) ==
    Listings({locs[n] : n \in {m \in DOMAIN locs : /\ locs[m].namespace = namespace
                                                   /\ label \in locs[m].labels}})

\* what the lookup of the target of feed answers: chartLister.Get for a chart,
\* the first manifest of ListManifestsBySelector otherwise
ResolveTarget(feed) ==
    IF feed.kind = chartKind
    THEN (IF feed \in charts THEN "found" ELSE "NotFound")
    ELSE (IF feed \in manifests THEN "found" ELSE "NotFound")

----------------------------------------------------------------------------
(* Localizer.getOverrides *)

\* AppendActive without the DeletionTimestamp test
RECURSIVE AppendAll(_, _)
AppendAll(all, decls) ==
    IF decls = <<>> THEN all
    ELSE AppendAll(all \o Overrides(Head(decls)), Tail(decls))

\* AppendActive assigning the overrides of a declaration instead of
\* appending them
RECURSIVE AppendActiveAssigns(_, _)
AppendActiveAssigns(all, decls) ==
    IF decls = <<>> THEN all
    ELSE IF Head(decls).deleted
         THEN AppendActiveAssigns(all, Tail(decls))
         ELSE AppendActiveAssigns(Overrides(Head(decls)), Tail(decls))

\* append glob.Spec.Overrides of every declaration that is not being deleted
RECURSIVE AppendActive(_, _)
AppendActive(all, decls) ==
    IF decls = <<>> THEN all
    ELSE IF Head(decls).deleted
         THEN AppendActive(all, Tail(decls))
         ELSE AppendActive(all \o Overrides(Head(decls)), Tail(decls))

\* MergeOverrides skipping the declarations that are being deleted among the
\* Localizations only
MergeOverridesGlobsUnfiltered(globList, locList) ==
    LET sortedGlobs == SliceStable(globList,
            [p \in Range(globList) \X Range(globList) |-> globLess(p[1], p[2])])
        sortedLocs == SliceStable(locList,
            [p \in Range(locList) \X Range(locList) |-> locLess(p[1], p[2])])
    IN  AppendActive(AppendAll(<<>>, sortedGlobs), sortedLocs)

\* MergeOverrides with one sort over both kinds instead of one per kind
MergeOverridesOneSort(globList, locList) ==
    LET both == globList \o locList
    IN  AppendActive(<<>>, SliceStable(both,
            [p \in Range(both) \X Range(both) |-> globLess(p[1], p[2])]))

\* globList and locList are what the two listers returned
MergeOverrides(globList, locList) ==
    LET sortedGlobs == SliceStable(globList,
            [p \in Range(globList) \X Range(globList) |-> globLess(p[1], p[2])])
        sortedLocs == SliceStable(locList,
            [p \in Range(locList) \X Range(locList) |-> locLess(p[1], p[2])])
    IN  AppendActive(AppendActive(<<>>, sortedGlobs), sortedLocs)

\* getOverrides taking a target that is not found for one without overrides
getOverridesSwallowsNotFound(namespace, feed, globList, locList) ==
    LET target == ResolveTarget(feed)
    IN  IF target # "found"
        THEN [err |-> "", configs |-> <<>>, globList |-> <<>>, locList |-> <<>>]
        ELSE [err |-> "", configs |-> MergeOverrides(globList, locList),
              globList |-> globList, locList |-> locList]

\* getOverrides returning an error when no override is left to apply
getOverridesEmptyIsError(namespace, feed, globList, locList) ==
    LET target == ResolveTarget(feed)
    IN  IF target # "found"
        THEN [err |-> target, configs |-> <<>>, globList |-> <<>>, locList |-> <<>>]
        ELSE IF MergeOverrides(globList, locList) = <<>>
        THEN [err |-> "no overrides", configs |-> <<>>, globList |-> globList, locList |-> locList]
        ELSE [err |-> "", configs |-> MergeOverrides(globList, locList),
              globList |-> globList, locList |-> locList]

\* globList and locList are what the listers return when they are called:
\* an element of GlobListings and one of LocListings
getOverrides(namespace, feed, globList, locList) ==
    LET target == ResolveTarget(feed)
    IN  IF target # "found"
        THEN [err |-> target, configs |-> <<>>, globList |-> <<>>, locList |-> <<>>]
        ELSE [err |-> "", configs |-> MergeOverrides(globList, locList),
              globList |-> globList, locList |-> locList]

----------------------------------------------------------------------------
(* Localizer.handleLocalization and Localizer.handleGlobalization *)

\* what a handler did: the events it recorded, the callbacks it invoked, the
\* objects it sent in an Update, the error it returned ("" for nil) and the
\* feeds it looked up in the chart or manifest lister
Did(ret, events, chartCalls, manifestCalls, updates) ==
    [ret |-> ret, events |-> events, chartCalls |-> chartCalls,
     manifestCalls |-> manifestCalls, updates |-> updates, reads |-> <<>>,
     touched |-> <<>>]

\* d after chartLister.Get or ListManifestsBySelector was called for feed
Looked(feed, d) == [d EXCEPT !.reads = Append(@, feed)]

InvalidOverridePolicy(decl) ==
    [object |-> decl.name, type |-> "Warning", reason |-> "InvalidOverridePolicy"]

\* WithoutFinalizer removing another token than the one the engine set
WithoutFinalizerWrongToken(decl) == [decl EXCEPT !.finalizers = @ \ {"clusternet.io/finalizer"}]

\* the copy of decl without the engine's finalizer
WithoutFinalizer(decl) == [decl EXCEPT !.finalizers = @ \ {AppFinalizer}]

\* RemoveFinalizer without the DeletionTimestamp test
RemoveFinalizerUnconditional(decl, d, updateFails) ==
    [d EXCEPT !.ret = IF updateFails THEN "update failed" ELSE "",
              !.updates = <<[decl EXCEPT !.finalizers = @ \ {AppFinalizer}]>>]

\* RemoveFinalizer taking the finalizer off the object it was handed, which is
\* the object of the informer cache, in place of a DeepCopy of it
RemoveFinalizerInPlace(decl, d, updateFails) ==
    IF decl.deleted
    THEN [d EXCEPT !.ret = IF updateFails THEN "update failed" ELSE "",
                   !.updates = <<WithoutFinalizer(decl)>>,
                   !.touched = <<WithoutFinalizer(decl)>>]
    ELSE d

\* the end of both handlers: the finalizer is removed from a declaration that
\* is being deleted.  d is what the policy step did; touched, the writes to
\* decl itself, stays empty because the handler writes to decl.DeepCopy().
RemoveFinalizer(decl, d, updateFails) ==
    IF decl.deleted
    THEN [d EXCEPT !.ret = IF updateFails THEN "update failed" ELSE "",
                   !.updates = <<WithoutFinalizer(decl)>>]
    ELSE d

\* handleLocalization returning an error for an unsupported policy, which
\* makes the controller requeue the item
handleLocalizationRequeuesInvalid(loc, lookupFails, callbackFails, updateFails) ==
    LET nothing == Did("", <<>>, <<>>, <<>>, <<>>)
    IN  CASE loc.policy = "ApplyNow" ->
                IF lookupFails
                THEN Looked(loc.feed, Did("lookup failed", <<>>, <<>>, <<>>, <<>>))
                ELSE IF ResolveTarget(loc.feed) = "NotFound"
                THEN RemoveFinalizer(loc, Looked(loc.feed, nothing), updateFails)
                ELSE IF loc.feed.kind = chartKind
                THEN IF callbackFails
                     THEN Looked(loc.feed, Did("callback failed", <<>>, <<loc.feed>>, <<>>, <<>>))
                     ELSE RemoveFinalizer(loc, Looked(loc.feed, Did("", <<>>, <<loc.feed>>, <<>>, <<>>)),
                                          updateFails)
                ELSE IF callbackFails
                     THEN Looked(loc.feed, Did("callback failed", <<>>, <<>>, <<loc.feed>>, <<>>))
                     ELSE RemoveFinalizer(loc, Looked(loc.feed, Did("", <<>>, <<>>, <<loc.feed>>, <<>>)),
                                          updateFails)
          [] loc.policy = "ApplyLater" ->
                RemoveFinalizer(loc, nothing, updateFails)
          [] OTHER ->
                Did("unsupported OverridePolicy", <<InvalidOverridePolicy(loc)>>, <<>>, <<>>, <<>>)

\* handleLocalization dropping the error of the callback
handleLocalizationIgnoresCallbackError(loc, lookupFails, callbackFails, updateFails) ==
    LET nothing == Did("", <<>>, <<>>, <<>>, <<>>)
    IN  CASE loc.policy = "ApplyNow" ->
                IF lookupFails
                THEN Looked(loc.feed, Did("lookup failed", <<>>, <<>>, <<>>, <<>>))
                ELSE IF ResolveTarget(loc.feed) = "NotFound"
                THEN RemoveFinalizer(loc, Looked(loc.feed, nothing), updateFails)
                ELSE IF loc.feed.kind = chartKind
                THEN IF callbackFails
                     THEN RemoveFinalizer(loc, Looked(loc.feed, Did("", <<>>, <<loc.feed>>, <<>>, <<>>)),
                                          updateFails)
                     ELSE RemoveFinalizer(loc, Looked(loc.feed, Did("", <<>>, <<loc.feed>>, <<>>, <<>>)),
                                          updateFails)
                ELSE IF callbackFails
                     THEN RemoveFinalizer(loc, Looked(loc.feed, Did("", <<>>, <<>>, <<loc.feed>>, <<>>)),
                                          updateFails)
                     ELSE RemoveFinalizer(loc, Looked(loc.feed, Did("", <<>>, <<>>, <<loc.feed>>, <<>>)),
                                          updateFails)
          [] loc.policy = "ApplyLater" ->
                RemoveFinalizer(loc, nothing, updateFails)
          [] OTHER ->
                Did("", <<InvalidOverridePolicy(loc)>>, <<>>, <<>>, <<>>)

\* handleLocalization with ApplyLater falling into the ApplyNow case
handleLocalizationLaterNotifies(loc, lookupFails, callbackFails, updateFails) ==
    LET nothing == Did("", <<>>, <<>>, <<>>, <<>>)
    IN  CASE loc.policy \in {"ApplyNow", "ApplyLater"} ->
                IF lookupFails
                THEN Looked(loc.feed, Did("lookup failed", <<>>, <<>>, <<>>, <<>>))
                ELSE IF ResolveTarget(loc.feed) = "NotFound"
                THEN RemoveFinalizer(loc, Looked(loc.feed, nothing), updateFails)
                ELSE IF loc.feed.kind = chartKind
                THEN IF callbackFails
                     THEN Looked(loc.feed, Did("callback failed", <<>>, <<loc.feed>>, <<>>, <<>>))
                     ELSE RemoveFinalizer(loc, Looked(loc.feed, Did("", <<>>, <<loc.feed>>, <<>>, <<>>)),
                                          updateFails)
                ELSE IF callbackFails
                     THEN Looked(loc.feed, Did("callback failed", <<>>, <<>>, <<loc.feed>>, <<>>))
                     ELSE RemoveFinalizer(loc, Looked(loc.feed, Did("", <<>>, <<>>, <<loc.feed>>, <<>>)),
                                          updateFails)
          [] OTHER ->
                Did("", <<InvalidOverridePolicy(loc)>>, <<>>, <<>>, <<>>)

\* handleLocalization returning nil at a target that is not found, where the
\* code breaks out of the switch
handleLocalizationNotFoundReturns(loc, lookupFails, callbackFails, updateFails) ==
    LET nothing == Did("", <<>>, <<>>, <<>>, <<>>)
    IN  CASE loc.policy = "ApplyNow" ->
                IF lookupFails
                THEN Looked(loc.feed, Did("lookup failed", <<>>, <<>>, <<>>, <<>>))
                ELSE IF ResolveTarget(loc.feed) = "NotFound"
                THEN Looked(loc.feed, nothing)
                ELSE IF loc.feed.kind = chartKind
                THEN IF callbackFails
                     THEN Looked(loc.feed, Did("callback failed", <<>>, <<loc.feed>>, <<>>, <<>>))
                     ELSE RemoveFinalizer(loc, Looked(loc.feed, Did("", <<>>, <<loc.feed>>, <<>>, <<>>)),
                                          updateFails)
                ELSE IF callbackFails
                     THEN Looked(loc.feed, Did("callback failed", <<>>, <<>>, <<loc.feed>>, <<>>))
                     ELSE RemoveFinalizer(loc, Looked(loc.feed, Did("", <<>>, <<>>, <<loc.feed>>, <<>>)),
                                          updateFails)
          [] loc.policy = "ApplyLater" ->
                RemoveFinalizer(loc, nothing, updateFails)
          [] OTHER ->
                Did("", <<InvalidOverridePolicy(loc)>>, <<>>, <<>>, <<>>)

\* lookupFails: the lister fails with an error that is not NotFound;
\* callbackFails: the callback returns an error; updateFails: the API
\* server refuses the Update
handleLocalization(loc, lookupFails, callbackFails, updateFails) ==
    LET nothing == Did("", <<>>, <<>>, <<>>, <<>>)
    IN  CASE loc.policy = "ApplyNow" ->
                IF lookupFails
                THEN Looked(loc.feed, Did("lookup failed", <<>>, <<>>, <<>>, <<>>))
                ELSE IF ResolveTarget(loc.feed) = "NotFound"
                THEN RemoveFinalizer(loc, Looked(loc.feed, nothing), updateFails)
                ELSE IF loc.feed.kind = chartKind
                THEN IF callbackFails
                     THEN Looked(loc.feed, Did("callback failed", <<>>, <<loc.feed>>, <<>>, <<>>))
                     ELSE RemoveFinalizer(loc, Looked(loc.feed, Did("", <<>>, <<loc.feed>>, <<>>, <<>>)),
                                          updateFails)
                ELSE IF callbackFails
                     THEN Looked(loc.feed, Did("callback failed", <<>>, <<>>, <<loc.feed>>, <<>>))
                     ELSE RemoveFinalizer(loc, Looked(loc.feed, Did("", <<>>, <<>>, <<loc.feed>>, <<>>)),
                                          updateFails)
          [] loc.policy = "ApplyLater" ->
                RemoveFinalizer(loc, nothing, updateFails)
          [] OTHER ->
                Did("", <<InvalidOverridePolicy(loc)>>, <<>>, <<>>, <<>>)

\* handleGlobalization returning the NotFound error of the lookup
handleGlobalizationNotFoundIsError(glob, lookupFails, callbackFails, updateFails) ==
    LET nothing == Did("", <<>>, <<>>, <<>>, <<>>)
    IN  CASE glob.policy = "ApplyNow" ->
                IF lookupFails
                THEN Looked(glob.feed, Did("lookup failed", <<>>, <<>>, <<>>, <<>>))
                ELSE IF ResolveTarget(glob.feed) = "NotFound"
                THEN Looked(glob.feed, Did("NotFound", <<>>, <<>>, <<>>, <<>>))
                ELSE IF glob.feed.kind = chartKind
                THEN IF callbackFails
                     THEN Looked(glob.feed, Did("callback failed", <<>>, <<glob.feed>>, <<>>, <<>>))
                     ELSE RemoveFinalizer(glob, Looked(glob.feed, Did("", <<>>, <<glob.feed>>, <<>>, <<>>)),
                                          updateFails)
                ELSE IF callbackFails
                     THEN Looked(glob.feed, Did("callback failed", <<>>, <<>>, <<glob.feed>>, <<>>))
                     ELSE RemoveFinalizer(glob, Looked(glob.feed, Did("", <<>>, <<>>, <<glob.feed>>, <<>>)),
                                          updateFails)
          [] glob.policy = "ApplyLater" ->
                RemoveFinalizer(glob, nothing, updateFails)
          [] OTHER ->
                Did("", <<InvalidOverridePolicy(glob)>>, <<>>, <<>>, <<>>)

\* handleGlobalization taking every error of the lookup for NotFound
handleGlobalizationLookupErrorSkips(glob, lookupFails, callbackFails, updateFails) ==
    LET nothing == Did("", <<>>, <<>>, <<>>, <<>>)
    IN  CASE glob.policy = "ApplyNow" ->
                IF lookupFails
                THEN RemoveFinalizer(glob, Looked(glob.feed, nothing), updateFails)
                ELSE IF ResolveTarget(glob.feed) = "NotFound"
                THEN RemoveFinalizer(glob, Looked(glob.feed, nothing), updateFails)
                ELSE IF glob.feed.kind = chartKind
                THEN IF callbackFails
                     THEN Looked(glob.feed, Did("callback failed", <<>>, <<glob.feed>>, <<>>, <<>>))
                     ELSE RemoveFinalizer(glob, Looked(glob.feed, Did("", <<>>, <<glob.feed>>, <<>>, <<>>)),
                                          updateFails)
                ELSE IF callbackFails
                     THEN Looked(glob.feed, Did("callback failed", <<>>, <<>>, <<glob.feed>>, <<>>))
                     ELSE RemoveFinalizer(glob, Looked(glob.feed, Did("", <<>>, <<>>, <<glob.feed>>, <<>>)),
                                          updateFails)
          [] glob.policy = "ApplyLater" ->
                RemoveFinalizer(glob, nothing, updateFails)
          [] OTHER ->
                Did("", <<InvalidOverridePolicy(glob)>>, <<>>, <<>>, <<>>)

\* the handler of the Globalization controller
handleGlobalization(glob, lookupFails, callbackFails, updateFails) ==
    LET nothing == Did("", <<>>, <<>>, <<>>, <<>>)
    IN  CASE glob.policy = "ApplyNow" ->
                IF lookupFails
                THEN Looked(glob.feed, Did("lookup failed", <<>>, <<>>, <<>>, <<>>))
                ELSE IF ResolveTarget(glob.feed) = "NotFound"
                THEN RemoveFinalizer(glob, Looked(glob.feed, nothing), updateFails)
                ELSE IF glob.feed.kind = chartKind
                THEN IF callbackFails
                     THEN Looked(glob.feed, Did("callback failed", <<>>, <<glob.feed>>, <<>>, <<>>))
                     ELSE RemoveFinalizer(glob, Looked(glob.feed, Did("", <<>>, <<glob.feed>>, <<>>, <<>>)),
                                          updateFails)
                ELSE IF callbackFails
                     THEN Looked(glob.feed, Did("callback failed", <<>>, <<>>, <<glob.feed>>, <<>>))
                     ELSE RemoveFinalizer(glob, Looked(glob.feed, Did("", <<>>, <<>>, <<glob.feed>>, <<>>)),
                                          updateFails)
          [] glob.policy = "ApplyLater" ->
                RemoveFinalizer(glob, nothing, updateFails)
          [] OTHER ->
                Did("", <<InvalidOverridePolicy(glob)>>, <<>>, <<>>, <<>>)

NoDeclaration == Declaration("", "", 0, 0, FALSE, "", NoFeed, FALSE)

\* what the environment answers during one reconcile
Answers(lookupFails, callbackFails, updateFails) ==
    [lookupFails |-> lookupFails, callbackFails |-> callbackFails, updateFails |-> updateFails]

NoReconcile == [called |-> FALSE, kind |-> "", object |-> NoDeclaration,
                answers |-> Answers(FALSE, FALSE, FALSE),
                did |-> Did("", <<>>, <<>>, <<>>, <<>>)]

\* the cache after the reconcile: an accepted Update replaces the object, and
\* the API server removes an object that is being deleted once no finalizer
\* is left on it
Updated(store, n, d) ==
    IF d.updates = <<>> \/ d.ret = "update failed"
    THEN IF d.touched = <<>> THEN store
         ELSE [store EXCEPT ![n] = d.touched[Len(d.touched)]]
    ELSE IF d.updates[1].deleted /\ d.updates[1].finalizers = {}
    THEN [m \in DOMAIN store \ {n} |-> store[m]]
    ELSE [store EXCEPT ![n] = d.updates[1]]

\* a worker of the Localization controller reconciles the Localization n
\* while the environment gives the answers a
SyncLocalization(n, a) ==
    /\ n \in DOMAIN locs
    /\ LET d == handleLocalization(locs[n], a.lookupFails, a.callbackFails, a.updateFails)
       IN  /\ rec' = [called |-> TRUE, kind |-> "Localization", object |-> locs[n],
                      answers |-> a, did |-> d]
           /\ locs' = Updated(locs, n, d)
    /\ UNCHANGED <<globs, charts, manifests, got, desc, applied, previous, run, build, bind, agent, helm>>

ReconcileLocalization ==
    \E n \in DOMAIN locs, lookupFails, callbackFails, updateFails \in BOOLEAN :
        SyncLocalization(n, Answers(lookupFails, callbackFails, updateFails))

\* a worker of the Globalization controller reconciles the Globalization n
SyncGlobalization(n, a) ==
    /\ n \in DOMAIN globs
    /\ LET d == handleGlobalization(globs[n], a.lookupFails, a.callbackFails, a.updateFails)
       IN  /\ rec' = [called |-> TRUE, kind |-> "Globalization", object |-> globs[n],
                      answers |-> a, did |-> d]
           /\ globs' = Updated(globs, n, d)
    /\ UNCHANGED <<locs, charts, manifests, got, desc, applied, previous, run, build, bind, agent, helm>>

ReconcileGlobalization ==
    \E n \in DOMAIN globs, lookupFails, callbackFails, updateFails \in BOOLEAN :
        SyncGlobalization(n, Answers(lookupFails, callbackFails, updateFails))

\* an operator deletes a Localization: it holds a finalizer, so the API
\* server only sets its deletionTimestamp
DeleteLocalization ==
    \E n \in DOMAIN locs :
        /\ ~locs[n].deleted
        /\ locs' = [locs EXCEPT ![n].deleted = TRUE]
        /\ UNCHANGED <<globs, charts, manifests, got, desc, applied, previous, rec, run, build, bind, agent, helm>>

\* an operator deletes a Globalization
DeleteGlobalization ==
    \E n \in DOMAIN globs :
        /\ ~globs[n].deleted
        /\ globs' = [globs EXCEPT ![n].deleted = TRUE]
        /\ UNCHANGED <<locs, charts, manifests, got, desc, applied, previous, rec, run, build, bind, agent, helm>>

----------------------------------------------------------------------------
(* Payloads and applyOverrides *)

\* a []byte payload: "nil" is an unset slot, "blank" the whitespace
\* placeholder, "bad" bytes that are no JSON object, "json" the object of
\* feed with the fields doc
NilBytes == [kind |-> "nil", feed |-> NoFeed, doc |-> EmptyDoc]
BlankBytes == [kind |-> "blank", feed |-> NoFeed, doc |-> EmptyDoc]
BadBytes == [kind |-> "bad", feed |-> NoFeed, doc |-> EmptyDoc]
JsonBytes(feed, doc) == [kind |-> "json", feed |-> feed, doc |-> doc]

\* one operation of a parsed payload on the fields of a document
applyPatchOp(doc, op) ==
    CASE op.op \in {"set", "add"} ->
            [ok |-> TRUE, doc |-> [doc EXCEPT ![op.key] = op.val]]
      [] op.op = "merge" ->
            [ok |-> TRUE,
             doc |-> [doc EXCEPT ![op.key] = IF op.val = "null" THEN Absent ELSE op.val]]
      [] op.op = "replace" ->
            [ok |-> doc[op.key] # Absent, doc |-> [doc EXCEPT ![op.key] = op.val]]
      [] op.op = "remove" ->
            [ok |-> doc[op.key] # Absent, doc |-> [doc EXCEPT ![op.key] = Absent]]
      [] OTHER ->
            [ok |-> doc[op.key] = op.val, doc |-> doc]

RECURSIVE applyPatchOps(_, _)
applyPatchOps(doc, ops) ==
    IF ops = <<>> THEN [ok |-> TRUE, doc |-> doc]
    ELSE LET r == applyPatchOp(doc, Head(ops))
         IN  IF r.ok THEN applyPatchOps(r.doc, Tail(ops)) ELSE r

\* one override step: Helm values merge into the values so far (the
\* placeholder counts as no values), JSONPatch and MergePatch need a JSON
\* document; a payload that does not parse fails the step
applyOverride(bytes, cfg) ==
    IF ~cfg.wf \/ bytes.kind \in {"nil", "bad"} \/ (bytes.kind = "blank" /\ cfg.type # "Helm")
    THEN [err |-> "patch failed: " \o cfg.name, result |-> NilBytes]
    ELSE LET r == applyPatchOps(bytes.doc, cfg.ops)
         IN  IF r.ok
             THEN [err |-> "", result |-> JsonBytes(bytes.feed, r.doc)]
             ELSE [err |-> "patch failed: " \o cfg.name, result |-> NilBytes]

\* applyOverrides(original, overrides): each step works on the output of the
\* step before; the first failing step fails the whole call
RECURSIVE applyOverrides(_, _)
applyOverrides(original, overrides) ==
    IF overrides = <<>> THEN [err |-> "", result |-> original]
    ELSE LET r == applyOverride(original, Head(overrides))
         IN  IF r.err # "" THEN r ELSE applyOverrides(r.result, Tail(overrides))

----------------------------------------------------------------------------
(* Localizer.ApplyOverridesToDescription *)

\* listed[idx] holds what the two listers return during the getOverrides
\* call of entry idx.  acc carries desc.Spec.Raw, allErrs and the number of
\* getOverrides calls made so far.

\* HelmLoop leaving the loop at the first entry that fails
RECURSIVE HelmLoopStopsAtError(_, _, _, _)
HelmLoopStopsAtError(descCopy, idx, acc, listed) ==
    IF idx > Len(descCopy.charts) THEN acc
    ELSE LET o == getOverrides(descCopy.namespace, descCopy.charts[idx],
                               listed[idx].globList, listed[idx].locList)
             r == applyOverrides(BlankBytes, o.configs)
             called == [acc EXCEPT !.lookups = @ + 1]
         IN  IF o.err # ""
             THEN [called EXCEPT !.errs = Append(@, o.err)]
             ELSE IF r.err # ""
             THEN [called EXCEPT !.errs = Append(@, r.err)]
             ELSE HelmLoopStopsAtError(descCopy, idx + 1, [called EXCEPT !.raw[idx] = r.result], listed)

\* the loop over descCopy.Spec.Charts
RECURSIVE HelmLoop(_, _, _, _)
HelmLoop(descCopy, idx, acc, listed) ==
    IF idx > Len(descCopy.charts) THEN acc
    ELSE LET o == getOverrides(descCopy.namespace, descCopy.charts[idx],
                               listed[idx].globList, listed[idx].locList)
             r == applyOverrides(BlankBytes, o.configs)
             called == [acc EXCEPT !.lookups = @ + 1]
         IN  IF o.err # ""
             THEN HelmLoop(descCopy, idx + 1, [called EXCEPT !.errs = Append(@, o.err)], listed)
             ELSE IF r.err # ""
             THEN HelmLoop(descCopy, idx + 1, [called EXCEPT !.errs = Append(@, r.err)], listed)
             ELSE HelmLoop(descCopy, idx + 1, [called EXCEPT !.raw[idx] = r.result], listed)

\* GenericLoop emptying the slot of an entry that fails
RECURSIVE GenericLoopClearsFailed(_, _, _, _)
GenericLoopClearsFailed(descCopy, idx, acc, listed) ==
    IF idx > Len(descCopy.raw) THEN acc
    ELSE LET rawObject == descCopy.raw[idx]
             o == getOverrides(descCopy.namespace, rawObject.feed,
                               listed[idx].globList, listed[idx].locList)
             r == applyOverrides(rawObject, o.configs)
             called == [acc EXCEPT !.lookups = @ + 1]
             failed(a, e) == [a EXCEPT !.errs = Append(@, e), !.raw[idx] = NilBytes]
         IN  IF rawObject.kind # "json"
             THEN GenericLoopClearsFailed(descCopy, idx + 1, failed(acc, "json: cannot unmarshal"), listed)
             ELSE IF o.err # ""
             THEN GenericLoopClearsFailed(descCopy, idx + 1, failed(called, o.err), listed)
             ELSE IF r.err # ""
             THEN GenericLoopClearsFailed(descCopy, idx + 1, failed(called, r.err), listed)
             ELSE GenericLoopClearsFailed(descCopy, idx + 1, [called EXCEPT !.raw[idx] = r.result], listed)

\* GenericLoop patching, from the second entry on, the payload the entry
\* before it left in its slot
RECURSIVE GenericLoopChainsPayload(_, _, _, _)
GenericLoopChainsPayload(descCopy, idx, acc, listed) ==
    IF idx > Len(descCopy.raw) THEN acc
    ELSE LET rawObject == IF idx > 1 THEN acc.raw[idx - 1] ELSE descCopy.raw[idx]
             o == getOverrides(descCopy.namespace, rawObject.feed,
                               listed[idx].globList, listed[idx].locList)
             r == applyOverrides(rawObject, o.configs)
             called == [acc EXCEPT !.lookups = @ + 1]
         IN  IF rawObject.kind # "json"
             THEN GenericLoopChainsPayload(descCopy, idx + 1,
                              [acc EXCEPT !.errs = Append(@, "json: cannot unmarshal")], listed)
             ELSE IF o.err # ""
             THEN GenericLoopChainsPayload(descCopy, idx + 1, [called EXCEPT !.errs = Append(@, o.err)], listed)
             ELSE IF r.err # ""
             THEN GenericLoopChainsPayload(descCopy, idx + 1, [called EXCEPT !.errs = Append(@, r.err)], listed)
             ELSE GenericLoopChainsPayload(descCopy, idx + 1, [called EXCEPT !.raw[idx] = r.result], listed)

\* the loop over descCopy.Spec.Raw
RECURSIVE GenericLoop(_, _, _, _)
GenericLoop(descCopy, idx, acc, listed) ==
    IF idx > Len(descCopy.raw) THEN acc
    ELSE LET rawObject == descCopy.raw[idx]
             o == getOverrides(descCopy.namespace, rawObject.feed,
                               listed[idx].globList, listed[idx].locList)
             r == applyOverrides(rawObject, o.configs)
             called == [acc EXCEPT !.lookups = @ + 1]
         IN  IF rawObject.kind # "json"
             THEN GenericLoop(descCopy, idx + 1,
                              [acc EXCEPT !.errs = Append(@, "json: cannot unmarshal")], listed)
             ELSE IF o.err # ""
             THEN GenericLoop(descCopy, idx + 1, [called EXCEPT !.errs = Append(@, o.err)], listed)
             ELSE IF r.err # ""
             THEN GenericLoop(descCopy, idx + 1, [called EXCEPT !.errs = Append(@, r.err)], listed)
             ELSE GenericLoop(descCopy, idx + 1, [called EXCEPT !.raw[idx] = r.result], listed)

\* ApplyOverridesToDescription taking an unknown deployer for the generic one
ApplyOverridesToDescriptionDefaultGeneric(d, listed) ==
    IF d.deployer = "Helm"
    THEN LET acc == HelmLoop(d, 1, [raw |-> [i \in 1..Len(d.charts) |-> NilBytes],
                                    errs |-> <<>>, lookups |-> 0], listed)
         IN  [desc |-> [d EXCEPT !.raw = acc.raw], errs |-> acc.errs, lookups |-> acc.lookups]
    ELSE LET acc == GenericLoop(d, 1, [raw |-> d.raw, errs |-> <<>>, lookups |-> 0], listed)
         IN  [desc |-> [d EXCEPT !.raw = acc.raw], errs |-> acc.errs, lookups |-> acc.lookups]

\* the Description as the call leaves it, the errors of the returned
\* aggregate (none: nil) and the number of getOverrides calls
ApplyOverridesToDescription(d, listed) ==
    CASE d.deployer = "Helm" ->
            LET acc == HelmLoop(d, 1, [raw |-> [i \in 1..Len(d.charts) |-> NilBytes],
                                       errs |-> <<>>, lookups |-> 0], listed)
            IN  [desc |-> [d EXCEPT !.raw = acc.raw], errs |-> acc.errs, lookups |-> acc.lookups]
      [] d.deployer = "Generic" ->
            LET acc == GenericLoop(d, 1, [raw |-> d.raw, errs |-> <<>>, lookups |-> 0], listed)
            IN  [desc |-> [d EXCEPT !.raw = acc.raw], errs |-> acc.errs, lookups |-> acc.lookups]
      [] OTHER ->
            [desc |-> d, errs |-> <<"unsupported deployer " \o d.deployer>>, lookups |-> 0]

NoCall == [called |-> FALSE, namespace |-> "", feed |-> NoFeed, err |-> "",
           configs |-> <<>>, globList |-> <<>>, locList |-> <<>>]

GotOverrides(namespace, feed, r) ==
    [called |-> TRUE, namespace |-> namespace, feed |-> feed, err |-> r.err,
     configs |-> r.configs, globList |-> r.globList, locList |-> r.locList]

\* one call of getOverrides on the current caches; the listers are reached
\* only when the target resolves
GetOverrides ==
    /\ ~got.called
    /\ \E namespace \in Namespaces, feed \in Feeds :
        IF ResolveTarget(feed) # "found"
        THEN got' = GotOverrides(namespace, feed,
                        getOverrides(namespace, feed, <<>>, <<>>))
        ELSE \E globList \in GlobListings(IndexLabel(feed)),
                locList \in LocListings(namespace, IndexLabel(feed)) :
                got' = GotOverrides(namespace, feed,
                        getOverrides(namespace, feed, globList, locList))
    /\ UNCHANGED <<globs, locs, charts, manifests, desc, applied, previous, rec, run, build, bind, agent, helm>>

NoDescription == [namespace |-> "", deployer |-> "", charts |-> <<>>, raw |-> <<>>]

NoRun == [called |-> FALSE, desc |-> NoDescription, errs |-> <<>>, lookups |-> 0]

\* the number of entries the run walks through
EntryCount(d) == IF d.deployer = "Helm" THEN Len(d.charts) ELSE Len(d.raw)

\* the feed of entry idx of d; NoFeed when the entry is no JSON object
EntryFeed(d, idx) == IF d.deployer = "Helm" THEN d.charts[idx] ELSE d.raw[idx].feed

\* what the listers may return during the getOverrides call of entry idx;
\* they are not called when the target of the entry does not resolve
EntryListings(d, idx) ==
    IF ResolveTarget(EntryFeed(d, idx)) # "found"
    THEN {[globList |-> <<>>, locList |-> <<>>]}
    ELSE [globList : GlobListings(IndexLabel(EntryFeed(d, idx))),
          locList : LocListings(d.namespace, IndexLabel(EntryFeed(d, idx)))]

\* one choice of EntryListings for every entry of d
RunListings(d) ==
    {listed \in [1..EntryCount(d) -> UNION {EntryListings(d, idx) : idx \in 1..EntryCount(d)}] :
        \A idx \in 1..EntryCount(d) : listed[idx] \in EntryListings(d, idx)}

\* one run of ApplyOverridesToDescription on a copy of desc as the build
\* made it; two runs in a row are recorded
ApplyToDescription ==
    /\ ~previous.called
    /\ \E listed \in RunListings(desc) :
        LET r == ApplyOverridesToDescription(desc, listed)
        IN  applied' = [called |-> TRUE, desc |-> r.desc, errs |-> r.errs,
                        lookups |-> r.lookups]
    /\ previous' = applied
    /\ UNCHANGED <<globs, locs, charts, manifests, got, desc, rec, run, build, bind, agent, helm>>

----------------------------------------------------------------------------
(* ApplyOverridesToDescription entry by entry, for the runs that go on      *)
(* while the controllers reconcile                                          *)

\* idx: the entry the loop is at (0: no run); acc: desc.Spec.Raw and allErrs
\* so far; seen: the caches as they were at the getOverrides call of each
\* entry done
NoBuild == [idx |-> 0, acc |-> [raw |-> <<>>, errs |-> <<>>, lookups |-> 0], seen |-> <<>>]

\* the run after the switch on the deployer, before the first iteration
StartedBuild(d) ==
    [idx |-> 1,
     acc |-> [raw |-> IF d.deployer = "Helm" THEN [i \in 1..Len(d.charts) |-> NilBytes] ELSE d.raw,
              errs |-> <<>>, lookups |-> 0],
     seen |-> <<>>]

\* the entries of d up to idx
Upto(d, idx) ==
    IF d.deployer = "Helm" THEN [d EXCEPT !.charts = SubSeq(@, 1, idx)]
    ELSE [d EXCEPT !.raw = SubSeq(@, 1, idx)]

\* one iteration of the loop of ApplyOverridesToDescription: getOverrides
\* reads the caches as they are now
BuildEntry ==
    /\ build.idx \in 1..EntryCount(desc)
    /\ \E o \in EntryListings(desc, build.idx) :
        LET listed == [i \in 1..build.idx |-> o]
            acc == IF desc.deployer = "Helm"
                   THEN HelmLoop(Upto(desc, build.idx), build.idx, build.acc, listed)
                   ELSE GenericLoop(Upto(desc, build.idx), build.idx, build.acc, listed)
        IN  build' = [idx |-> build.idx + 1, acc |-> acc,
                      seen |-> Append(build.seen, [globs |-> globs, locs |-> locs])]
    /\ UNCHANGED <<globs, locs, charts, manifests, got, desc, applied, previous, rec, run, bind, agent, helm>>

----------------------------------------------------------------------------
(* DefaultBinder.Bind *)

\* a bound of the model: Bind is handed 0..MaxClusters clusters
MaxClusters == 3

\* namespaced cluster names as strings: the bytes that follow the common
\* prefix "cluster-ns-"
ClusterNames == {<<0>>, <<0, 1>>, <<0, 3>>, <<1, 0>>}

\* a < b on Go strings: bytewise, a proper prefix first
RECURSIVE StringLess(_, _)
StringLess(a, b) ==
    IF b = <<>> THEN FALSE
    ELSE IF a = <<>> THEN TRUE
    ELSE IF Head(a) # Head(b) THEN Head(a) < Head(b)
    ELSE StringLess(Tail(a), Tail(b))

\* utils.HashSubscriptionSpec
HashSubscriptionSpec(spec) == <<"hash", spec>>

\* the Subscription foo of namespace ns, not bound yet
testSubscription ==
    [name |-> "foo", namespace |-> "ns", spec |-> "spec",
     status |-> [BindingClusters |-> <<>>, SpecHash |-> <<>>, DesiredReleases |-> 0]]

\* a *framework.Status: nil, or the status of an error
NilStatus == [code |-> "Success", err |-> ""]
AsStatus(err) == [code |-> "Error", err |-> err]

\* Bind handing the clusters on in the order it got them
BindUnsorted(sub, namespacedClusters, injectErr) ==
    LET subCopy == [sub EXCEPT !.status =
                        [BindingClusters |-> namespacedClusters,
                         SpecHash |-> HashSubscriptionSpec(sub.spec),
                         DesiredReleases |-> Len(namespacedClusters)]]
    IN  [sent |-> subCopy,
         status |-> IF injectErr # "" THEN AsStatus(injectErr) ELSE NilStatus]

\* Bind dropping the error of UpdateStatus
BindSwallowsError(sub, namespacedClusters, injectErr) ==
    LET sorted == SliceStable(namespacedClusters,
                    [p \in Range(namespacedClusters) \X Range(namespacedClusters) |->
                        StringLess(p[1], p[2])])
        subCopy == [sub EXCEPT !.status =
                        [BindingClusters |-> sorted,
                         SpecHash |-> HashSubscriptionSpec(sub.spec),
                         DesiredReleases |-> Len(sorted)]]
    IN  [sent |-> subCopy, status |-> NilStatus]

\* injectErr is the error UpdateStatus returns ("" for nil).  sent is the
\* object handed to UpdateStatus.
Bind(sub, namespacedClusters, injectErr) ==
    LET sorted == SliceStable(namespacedClusters,
                    [p \in Range(namespacedClusters) \X Range(namespacedClusters) |->
                        StringLess(p[1], p[2])])
        subCopy == [sub EXCEPT !.status =
                        [BindingClusters |-> sorted,
                         SpecHash |-> HashSubscriptionSpec(sub.spec),
                         DesiredReleases |-> Len(sorted)]]
    IN  [sent |-> subCopy,
         status |-> IF injectErr # "" THEN AsStatus(injectErr) ELSE NilStatus]

NoBind == [called |-> FALSE, clusters |-> <<>>, injectErr |-> "", sent |-> testSubscription,
           status |-> NilStatus, stored |-> testSubscription]

\* the scheduler binds the stored Subscription to the clusters it was set up
\* with; the API server keeps the object it is sent unless it refuses it
BindSubscription ==
    /\ ~bind.called
    /\ LET r == Bind(bind.stored, bind.clusters, bind.injectErr)
       IN  bind' = [bind EXCEPT !.called = TRUE, !.sent = r.sent, !.status = r.status,
                                !.stored = IF bind.injectErr # "" THEN @ ELSE r.sent]
    /\ UNCHANGED <<globs, locs, charts, manifests, got, desc, applied, previous, rec, run, build, agent, helm>>

----------------------------------------------------------------------------
(* Agent (pkg/agent): leader election, registration of the child cluster   *)
(* with the parent, storing of the credentials the parent hands out         *)

\* bounds of the model: calls of bootstrapClusterRegistrationIfNeeded in one
\* registration, and rounds of storeParentClusterCredentials that fail
MaxAttempts == 2
MaxRounds == 2

\* registrationOptions.ParentURL and registrationOptions.BootstrapToken
ParentURL == "https://parent"
BootstrapToken == "bootstrap-token"

\* the token of a Secret parent-cluster left by an earlier registration and
\* the credentials the parent puts into the status of an approved request
StoredToken == "stored-token"
DedicatedToken == "dedicated-token"
ParentNamespace == "clusternet-ns"

\* a *rest.Config
NilConfig == [nil |-> TRUE, url |-> "", token |-> ""]
RestConfig(url, token) == [nil |-> FALSE, url |-> url, token |-> token]

\* utils.GenerateKubeConfigFromToken: a config for the url and the token, or
\* an error
GenerateKubeConfigFromToken(url, token, fails) ==
    IF fails THEN [err |-> "error while creating kubeconfig", config |-> NilConfig]
    ELSE [err |-> "", config |-> RestConfig(url, token)]

\* a *ClusterRegistrationRequest as a Get returns it: the nil pointer the
\* variable crr starts with, the empty object a failed Get leaves, the
\* request before and after its approval
NilCRR == [nil |-> TRUE, name |-> "", result |-> "", token |-> "", namespace |-> ""]
EmptyCRR == [NilCRR EXCEPT !.nil = FALSE]
PendingCRR == [EmptyCRR EXCEPT !.name = "clusternet-uid"]
ApprovedCRR == [PendingCRR EXCEPT !.result = "Approved", !.token = DedicatedToken,
                                  !.namespace = ParentNamespace]

\* the Secret parent-cluster of the child cluster
NoSecret == [found |-> FALSE, url |-> "", token |-> ""]
ParentClusterSecret(url, token) == [found |-> TRUE, url |-> url, token |-> token]

\* the agent before Run is called.  main: the goroutine of Run; work: the
\* goroutine of run (the same one without leader election)
NoAgent ==
    [leaderElect |-> FALSE, gate |-> FALSE, ctxDone |-> FALSE, lease |-> "none",
     main |-> "idle", work |-> "idle", runs |-> 0,
     ClusterID |-> "", ClusterName |-> "", tryToUseSecret |-> TRUE, consulted |-> FALSE,
     parentDedicatedKubeConfig |-> NilConfig, DedicatedNamespace |-> <<>>,
     crr |-> NilCRR, attempts |-> <<>>, succeeded |-> FALSE, installed |-> <<>>,
     secret |-> NoSecret, parent |-> "none",
     store |-> "idle", storeCrr |-> NilCRR, rounds |-> 0, writes |-> <<>>,
     statusManager |-> "idle", deployer |-> "idle", started |-> {}]

\* the context run was handed is done: agent.ctx, or the context of the
\* leader elector, which is cancelled when the lease is lost
RunCtxDone(a) == a.ctxDone \/ a.lease = "lost"

\* the process has neither panicked nor called klog.Exitf
Alive(a) == a.work \notin {"crashed", "exited"}

\* one call of bootstrapClusterRegistrationIfNeeded as the registration keeps
\* track of it: the token of the client it made, whether the Secret was read
\* in the same iteration, what Create answered, whether it went on to wait
\* for the approval, and whether the call failed
Attempted(a, token, create, waited) ==
    [token |-> token, consulted |-> a.consulted, create |-> create, waited |-> waited,
     failed |-> FALSE]

getBootstrapKubeConfigForParentCluster(a, fails) ==
    IF ~a.parentDedicatedKubeConfig.nil
    THEN [err |-> "", config |-> a.parentDedicatedKubeConfig]
    ELSE GenerateKubeConfigFromToken(ParentURL, BootstrapToken, fails)

\* the secret step trusting the Secret whatever parent URL it records
UseSecretOfAnyParent(a, answer, fails) ==
    IF answer = "error" THEN [returned |-> TRUE, agent |-> [a EXCEPT !.consulted = TRUE]]
    ELSE IF ~a.secret.found THEN [returned |-> FALSE, agent |-> [a EXCEPT !.consulted = TRUE]]
    ELSE LET g == GenerateKubeConfigFromToken(ParentURL, a.secret.token, fails)
         IN  [returned |-> FALSE,
              agent |-> IF g.err = ""
                        THEN [a EXCEPT !.consulted = TRUE, !.parentDedicatedKubeConfig = g.config]
                        ELSE [a EXCEPT !.consulted = TRUE]]

\* the step "get parent cluster kubeconfig" of an iteration of
\* registerSelfCluster that finds tryToUseSecret set.  answer: Get of the
\* Secret fails with an error that is not NotFound, or finds what there is;
\* returned: the iteration ends here
UseSecret(a, answer, fails) ==
    IF answer = "error" THEN [returned |-> TRUE, agent |-> [a EXCEPT !.consulted = TRUE]]
    ELSE IF ~a.secret.found THEN [returned |-> FALSE, agent |-> [a EXCEPT !.consulted = TRUE]]
    ELSE IF a.secret.url # ParentURL
    THEN [returned |-> FALSE, agent |-> [a EXCEPT !.consulted = TRUE]]
    ELSE LET g == GenerateKubeConfigFromToken(ParentURL, a.secret.token, fails)
         IN  [returned |-> FALSE,
              agent |-> IF g.err = ""
                        THEN [a EXCEPT !.consulted = TRUE, !.parentDedicatedKubeConfig = g.config]
                        ELSE [a EXCEPT !.consulted = TRUE]]

\* bootstrapClusterRegistrationIfNeeded taking AlreadyExists for a failure
bootstrapClusterRegistrationRejectsExisting(a, fails, create) ==
    LET cfg == getBootstrapKubeConfigForParentCluster(a, fails)
    IN  IF cfg.err # ""
        THEN [err |-> cfg.err, agent |-> [a EXCEPT !.attempts = Append(@, Attempted(a, "", "none", FALSE))]]
        ELSE IF create # "created"
        THEN [err |-> "failed to create ClusterRegistrationRequest",
              agent |-> [a EXCEPT !.attempts = Append(@, Attempted(a, cfg.config.token, create, FALSE))]]
        ELSE [err |-> "",
              agent |-> [a EXCEPT !.attempts = Append(@, Attempted(a, cfg.config.token, create, TRUE)),
                                  !.parent = "pending",
                                  !.crr = NilCRR, !.work = "waiting"]]

\* bootstrapClusterRegistrationIfNeeded up to the call of waitingForApproval.
\* create: what Create answers, "created", "AlreadyExists" or "error"; with
\* no error the agent is waiting for the approval
bootstrapClusterRegistrationIfNeeded(a, fails, create) ==
    LET cfg == getBootstrapKubeConfigForParentCluster(a, fails)
    IN  IF cfg.err # ""
        THEN [err |-> cfg.err, agent |-> [a EXCEPT !.attempts = Append(@, Attempted(a, "", "none", FALSE))]]
        ELSE IF create = "error"
        THEN [err |-> "failed to create ClusterRegistrationRequest",
              agent |-> [a EXCEPT !.attempts = Append(@, Attempted(a, cfg.config.token, create, FALSE))]]
        ELSE [err |-> "",
              agent |-> [a EXCEPT !.attempts = Append(@, Attempted(a, cfg.config.token, create, TRUE)),
                                  !.parent = IF create = "created" THEN "pending" ELSE @,
                                  !.crr = NilCRR, !.work = "waiting"]]

\* the end of waitingForApproval, after the loop: crr is the request read
\* last.  A nil crr is dereferenced, which panics.
waitingForApproval(a, fails) ==
    IF a.crr.nil THEN [err |-> "panic", agent |-> [a EXCEPT !.work = "crashed"]]
    ELSE LET g == GenerateKubeConfigFromToken(ParentURL, a.crr.token, fails)
         IN  IF g.err # "" THEN [err |-> g.err, agent |-> a]
             ELSE [err |-> "",
                   agent |-> [a EXCEPT !.parentDedicatedKubeConfig = g.config,
                                       !.DedicatedNamespace = <<a.crr.namespace>>,
                                       !.installed = Append(@, a.crr),
                                       !.store = "loop", !.storeCrr = a.crr]]

\* the failure branch keeping the kubeconfig and the flag as they are
FailAttemptKeepsCredentials(a) ==
    [a EXCEPT !.work = "register", !.attempts[Len(a.attempts)].failed = TRUE]

\* the failure branch of an iteration of registerSelfCluster
FailAttempt(a) ==
    [a EXCEPT !.tryToUseSecret = FALSE, !.parentDedicatedKubeConfig = NilConfig,
              !.work = "register", !.attempts[Len(a.attempts)].failed = TRUE]

\* the end of an iteration of registerSelfCluster, r being what
\* bootstrapClusterRegistrationIfNeeded returned: on nil the context of the
\* loop is cancelled and registerSelfCluster returns
Registered(r) ==
    IF r.err = "panic" THEN r.agent
    ELSE IF r.err # "" THEN FailAttempt(r.agent)
    ELSE [r.agent EXCEPT !.succeeded = TRUE, !.work = "run"]

\* an iteration of registerSelfCluster up to the loop of waitingForApproval
Iteration(a, idFails, answer, fails, bootFails, create) ==
    IF a.ClusterID = "" /\ idFails THEN a
    ELSE LET identified == [a EXCEPT !.ClusterID = "uid", !.consulted = FALSE]
             s == IF identified.tryToUseSecret THEN UseSecret(identified, answer, fails)
                  ELSE [returned |-> FALSE, agent |-> identified]
             r == bootstrapClusterRegistrationIfNeeded(s.agent, bootFails, create)
         IN  IF s.returned THEN [a EXCEPT !.ClusterID = "uid"]
             ELSE IF r.err # "" THEN FailAttempt(r.agent)
             ELSE r.agent

\* sockets.NewController: it makes a client of the config, which a nil
\* config does not survive
NewController(config, fails) ==
    IF config.nil THEN "panic" ELSE IF fails THEN "error" ELSE "ok"

\* a component as run started it, with the arguments that were nil
Component(name, config, namespace, id) ==
    [component |-> name,
     nilArgs |-> {arg \in {"parentDedicatedKubeConfig", "DedicatedNamespace", "ClusterID"} :
                    \/ arg = "parentDedicatedKubeConfig" /\ config.nil
                    \/ arg = "DedicatedNamespace" /\ namespace = <<>>
                    \/ arg = "ClusterID" /\ id = ""}]

\* the writes of one iteration of storeParentClusterCredentials.  create:
\* what Create answers; updated: the Update, if one is sent, is accepted
storeParentClusterCredentials(a, create, updated) ==
    LET secret == ParentClusterSecret(ParentURL, a.storeCrr.token)
        wrote(op, answer) == [op |-> op, answer |-> answer]
    IN  IF create = "created"
        THEN [a EXCEPT !.secret = secret, !.store = "done",
                       !.writes = Append(@, wrote("Create", "ok"))]
        ELSE IF create = "AlreadyExists"
        THEN IF updated
             THEN [a EXCEPT !.secret = secret, !.store = "done",
                            !.writes = @ \o <<wrote("Create", create), wrote("Update", "ok")>>]
             ELSE [a EXCEPT !.rounds = @ + 1,
                            !.writes = @ \o <<wrote("Create", create), wrote("Update", "error")>>]
        ELSE [a EXCEPT !.rounds = @ + 1, !.writes = Append(@, wrote("Create", "error"))]

Elsewhere == UNCHANGED <<globs, locs, charts, manifests, got, desc, applied, previous, rec, run, build, bind, helm>>

\* agent.ctx is cancelled
Cancel ==
    /\ Alive(agent)
    /\ ~agent.ctxDone
    /\ agent' = [agent EXCEPT !.ctxDone = TRUE]
    /\ Elsewhere

\* the parent approves the request
Approve ==
    /\ agent.parent = "pending"
    /\ agent' = [agent EXCEPT !.parent = "approved"]
    /\ Elsewhere

\* Agent.Run handing the work to a goroutine before the lease is acquired
RunWorksBeforeLeading ==
    /\ agent.main = "idle"
    /\ \E fails \in BOOLEAN :
        agent' = IF ~agent.leaderElect
                 THEN [agent EXCEPT !.main = "inline", !.work = "register", !.runs = @ + 1,
                                    !.tryToUseSecret = TRUE]
                 ELSE IF fails THEN [agent EXCEPT !.main = "err"]
                 ELSE [agent EXCEPT !.main = "electing", !.work = "register", !.runs = @ + 1,
                                    !.tryToUseSecret = TRUE]
    /\ Elsewhere

\* Agent.Run up to the call of agent.run (inline) or of le.Run.  fails:
\* GenerateIdentity or NewLeaderElector returns an error
Run ==
    /\ agent.main = "idle"
    /\ \E fails \in BOOLEAN :
        agent' = IF ~agent.leaderElect
                 THEN [agent EXCEPT !.main = "inline", !.work = "register", !.runs = @ + 1,
                                    !.tryToUseSecret = TRUE]
                 ELSE IF fails THEN [agent EXCEPT !.main = "err"]
                 ELSE [agent EXCEPT !.main = "electing"]
    /\ Elsewhere

\* le.Run: the elector acquires the lease and calls OnStartedLeading in a
\* goroutine, or gives up because agent.ctx is done
Acquire ==
    /\ agent.main = "electing"
    /\ agent' = IF agent.ctxDone THEN [agent EXCEPT !.main = "nil"]
                ELSE [agent EXCEPT !.lease = "held", !.main = "leading", !.work = "register",
                                   !.runs = @ + 1, !.tryToUseSecret = TRUE]
    /\ Elsewhere

\* the elector fails to renew the lease
LoseLease ==
    /\ agent.main = "leading"
    /\ agent.lease = "held"
    /\ Alive(agent)
    /\ agent' = [agent EXCEPT !.lease = "lost"]
    /\ Elsewhere

\* le.Run returns and Agent.Run returns nil
StopLeading ==
    /\ agent.main = "leading"
    /\ RunCtxDone(agent)
    /\ Alive(agent)
    /\ agent' = [agent EXCEPT !.main = "nil"]
    /\ Elsewhere

\* one round of the loop of registerSelfCluster: it ends the loop when the
\* context is done, and else runs an iteration up to the wait for approval
RegisterAttempt ==
    /\ agent.work = "register"
    /\ IF RunCtxDone(agent)
       THEN agent' = [agent EXCEPT !.work = "run"]
       ELSE /\ Len(agent.attempts) < MaxAttempts
            /\ \E idFails, fails, bootFails \in BOOLEAN, answer \in {"error", "found"},
                  create \in {"created", "AlreadyExists", "error"} :
                /\ create = "created" => agent.parent = "none"
                /\ create = "AlreadyExists" => agent.parent # "none"
                /\ agent' = Iteration(agent, idFails, answer, fails, bootFails, create)
    /\ Elsewhere

\* one iteration of the loop of waitingForApproval; when it reads the
\* approval the loop ends and waitingForApproval runs to its end
PollApproval ==
    /\ agent.work = "waiting"
    /\ ~RunCtxDone(agent)
    /\ \E getFails, fails \in BOOLEAN :
        LET read == IF getFails THEN EmptyCRR
                    ELSE IF agent.parent = "approved" THEN ApprovedCRR ELSE PendingCRR
            a == [agent EXCEPT !.crr = read,
                               !.ClusterName = IF getFails THEN @ ELSE "child-cluster"]
        IN  agent' = IF read.result = "Approved" THEN Registered(waitingForApproval(a, fails))
                     ELSE a
    /\ Elsewhere

\* the loop of waitingForApproval finds its context done and
\* waitingForApproval runs to its end
EndWait ==
    /\ agent.work = "waiting"
    /\ RunCtxDone(agent)
    /\ \E fails \in BOOLEAN : agent' = Registered(waitingForApproval(agent, fails))
    /\ Elsewhere

\* agent.run after registerSelfCluster has returned, up to <-ctx.Done()
StartComponents ==
    /\ agent.work = "run"
    /\ \E fails \in BOOLEAN :
        LET made == IF agent.gate THEN NewController(agent.parentDedicatedKubeConfig, fails)
                    ELSE "off"
            spawned == [agent EXCEPT !.statusManager = "spawned", !.deployer = "spawned",
                                     !.work = "blocked"]
        IN  agent' = CASE made = "panic" -> [agent EXCEPT !.work = "crashed"]
                       [] made = "error" -> [agent EXCEPT !.work = "exited"]
                       [] made = "ok" ->
                            [spawned EXCEPT !.started = @ \cup
                                {Component("socket", agent.parentDedicatedKubeConfig,
                                           <<"">>, agent.ClusterID)}]
                       [] OTHER -> spawned
    /\ Elsewhere

\* the goroutine of the status manager calling statusManager.Run although
\* the context is done
RunStatusManagerUnchecked ==
    /\ agent.statusManager = "spawned"
    /\ Alive(agent)
    /\ agent' = [agent EXCEPT !.statusManager = "running",
                              !.started = @ \cup
                                {Component("statusManager", agent.parentDedicatedKubeConfig,
                                           agent.DedicatedNamespace, agent.ClusterID)}]
    /\ Elsewhere

\* the goroutine wait.UntilWithContext(ctx, statusManager.Run ...): it
\* looks at the context before it calls the function
RunStatusManager ==
    /\ agent.statusManager = "spawned"
    /\ Alive(agent)
    /\ agent' = IF RunCtxDone(agent) THEN [agent EXCEPT !.statusManager = "stopped"]
                ELSE [agent EXCEPT !.statusManager = "running",
                                   !.started = @ \cup
                                     {Component("statusManager", agent.parentDedicatedKubeConfig,
                                                agent.DedicatedNamespace, agent.ClusterID)}]
    /\ Elsewhere

\* the goroutine wait.UntilWithContext(ctx, deployer.Run ...)
RunDeployer ==
    /\ agent.deployer = "spawned"
    /\ Alive(agent)
    /\ agent' = IF RunCtxDone(agent) THEN [agent EXCEPT !.deployer = "stopped"]
                ELSE [agent EXCEPT !.deployer = "running",
                                   !.started = @ \cup
                                     {Component("deployer", agent.parentDedicatedKubeConfig,
                                                agent.DedicatedNamespace, agent.ClusterID)}]
    /\ Elsewhere

\* <-ctx.Done() at the end of agent.run; inline, Agent.Run returns nil
AgentDone ==
    /\ agent.work = "blocked"
    /\ RunCtxDone(agent)
    /\ agent' = [agent EXCEPT !.work = "done",
                              !.main = IF @ = "inline" THEN "nil" ELSE @]
    /\ Elsewhere

\* the loop of storeParentClusterCredentials sending an Update without a
\* Create before it
StoreRoundUpdatesFirst ==
    /\ agent.store = "loop"
    /\ Alive(agent)
    /\ IF agent.ctxDone
       THEN agent' = [agent EXCEPT !.store = "stopped"]
       ELSE \E updated \in BOOLEAN :
                /\ ~updated => agent.rounds < MaxRounds
                /\ agent' = IF updated
                            THEN [agent EXCEPT !.store = "done",
                                     !.secret = ParentClusterSecret(ParentURL, agent.storeCrr.token),
                                     !.writes = Append(@, [op |-> "Update", answer |-> "ok"])]
                            ELSE [agent EXCEPT !.rounds = @ + 1,
                                     !.writes = Append(@, [op |-> "Update", answer |-> "error"])]
    /\ Elsewhere

\* one round of the loop of storeParentClusterCredentials, whose context
\* is made of agent.ctx
StoreRound ==
    /\ agent.store = "loop"
    /\ Alive(agent)
    /\ IF agent.ctxDone
       THEN agent' = [agent EXCEPT !.store = "stopped"]
       ELSE \E create \in {"created", "AlreadyExists", "error"}, updated \in BOOLEAN :
                /\ create = "created" => ~agent.secret.found
                /\ create = "AlreadyExists" => agent.secret.found
                /\ (create = "error" \/ (create = "AlreadyExists" /\ ~updated)) =>
                        agent.rounds < MaxRounds
                /\ agent' = storeParentClusterCredentials(agent, create, updated)
    /\ Elsewhere

----------------------------------------------------------------------------
(* Helm releases: getReleaseName, ReleaseNeedsUpgrade, UninstallRelease *)

\* a string as strings.Contains sees it: the sequence of its characters
ReleaseNotLoaded ==
    <<"R", "e", "l", "e", "a", "s", "e", " ", "n", "o", "t", " ",
      "l", "o", "a", "d", "e", "d">>

\* a nil error
NilError == [nil |-> TRUE, msg |-> <<>>]

\* the errors action.Uninstall may answer with, each with what its Error()
\* says; the library is not part of the repository, so its answer is an input:
\* "uninstall: " or nothing, then one of six texts, then ": r1" or nothing
UninstallErrors ==
    LET prefix == <<"u", "n", "i", "n", "s", "t", "a", "l", "l", ":", " ">>
        notFound ==
            <<"r", "e", "l", "e", "a", "s", "e", ":", " ", "n", "o", "t", " ",
              "f", "o", "u", "n", "d">>
        lower ==
            <<"r", "e", "l", "e", "a", "s", "e", " ", "n", "o", "t", " ",
              "l", "o", "a", "d", "e", "d">>
        short == SubSeq(ReleaseNotLoaded, 1, Len(ReleaseNotLoaded) - 2)
        timedOut == <<"t", "i", "m", "e", "d", " ", "o", "u", "t">>
        name == <<":", " ", "r", "1">>
    IN  {[nil |-> FALSE, msg |-> pre \o core \o post] :
            pre \in {<<>>, prefix},
            core \in {ReleaseNotLoaded, lower, short, notFound, timedOut, <<>>},
            post \in {<<>>, name}}

\* strings.Contains(s, substr): does substr start at some position of s
RECURSIVE Contains(_, _)
Contains(s, substr) ==
    IF Len(substr) > Len(s) THEN FALSE
    ELSE IF SubSeq(s, 1, Len(substr)) = substr THEN TRUE
    ELSE Contains(Tail(s), substr)

\* map[string]interface{}: a nil map, or the entries of a map that is not nil
NilValues == [nil |-> TRUE, entries |-> <<>>]

\* the values the inputs are drawn from: nil, the empty map, and maps of the
\* key replicas
HelmValues ==
    {NilValues}
        \cup {[nil |-> FALSE, entries |-> e] :
                e \in {<<>>} \cup {[k \in {"replicas"} |-> v] : v \in {1, 2}}}

\* reflect.DeepEqual of two map[string]interface{}: a nil map equals only a
\* nil map; two maps that are not nil are equal when they have the same keys
\* and deeply equal values
DeepEqual(a, b) ==
    IF a.nil \/ b.nil THEN a.nil /\ b.nil
    ELSE /\ DOMAIN a.entries = DOMAIN b.entries
         /\ \A k \in DOMAIN a.entries : a.entries[k] = b.entries[k]

\* the installed *release.Release
Release(name, namespace, chart, version, config) ==
    [Name |-> name, Namespace |-> namespace,
     Chart |-> [Metadata |-> [Name |-> chart, Version |-> version]],
     Config |-> config]

\* the *appsapi.HelmRelease; releaseName is the *string Spec.ReleaseName: <<>>
\* when it is nil, <<s>> when it points to s
HelmRelease(name, releaseName, targetNamespace, chart, chartVersion) ==
    [Name |-> name,
     Spec |-> [ReleaseName |-> releaseName, TargetNamespace |-> targetNamespace,
               Chart |-> chart, ChartVersion |-> chartVersion]]

\* getReleaseName without its test of Spec.ReleaseName
getObjectName(hr) == hr.Name

\* getReleaseName
getReleaseName(hr) ==
    IF hr.Spec.ReleaseName # <<>> THEN hr.Spec.ReleaseName[1] ELSE hr.Name

\* ReleaseNeedsUpgrade; the chart it is given is not read
ReleaseNeedsUpgrade(rel, hr, vals) ==
    IF rel.Name # getReleaseName(hr) THEN TRUE
    ELSE IF rel.Namespace # hr.Spec.TargetNamespace THEN TRUE
    ELSE IF rel.Chart.Metadata.Name # hr.Spec.Chart THEN TRUE
    ELSE IF rel.Chart.Metadata.Version # hr.Spec.ChartVersion THEN TRUE
    ELSE IF ~DeepEqual(rel.Config, vals) THEN TRUE
    ELSE FALSE

\* UninstallRelease that returns every error of the uninstall
UninstallReleaseReturnsEveryError(hr, err) ==
    [name |-> getReleaseName(hr), err |-> err]

\* UninstallRelease: the name the uninstall ran with and the error returned,
\* err being what client.Run answered
UninstallRelease(hr, err) ==
    [name |-> getReleaseName(hr),
     err |-> IF ~err.nil
                THEN IF Contains(err.msg, ReleaseNotLoaded) THEN NilError
                     ELSE err
                ELSE NilError]

\* nothing was asked of the helm helpers; op is the call made, and the fields
\* after it hold what that call returned. The helpers keep nothing between
\* two calls, so a behaviour makes one call on the inputs it started with
NoHelm ==
    [rel |-> Release("", "", "", "", NilValues),
     hr |-> HelmRelease("", <<>>, "", "", ""),
     vals |-> NilValues,
     op |-> "none", needsUpgrade |-> FALSE,
     answered |-> NilError, uninstalled |-> "", returned |-> NilError]

\* a call of ReleaseNeedsUpgrade with the release, the HelmRelease and the
\* values at hand
NeedsUpgrade ==
    /\ helm.op = "ready"
    /\ helm' = [helm EXCEPT !.op = "ReleaseNeedsUpgrade",
                            !.needsUpgrade =
                                ReleaseNeedsUpgrade(helm.rel, helm.hr, helm.vals),
                            !.answered = NilError, !.uninstalled = "",
                            !.returned = NilError]
    /\ UNCHANGED <<globs, locs, charts, manifests, got, desc, applied, previous, rec, run, build, bind, agent>>

\* a call of UninstallRelease; client.Run answers err
Uninstall ==
    /\ helm.op = "ready"
    /\ \E err \in UninstallErrors \cup {NilError} :
        LET out == UninstallRelease(helm.hr, err) IN
        helm' = [helm EXCEPT !.op = "UninstallRelease", !.needsUpgrade = FALSE,
                             !.answered = err,
                             !.uninstalled = out.name, !.returned = out.err]
    /\ UNCHANGED <<globs, locs, charts, manifests, got, desc, applied, previous, rec, run, build, bind, agent>>

----------------------------------------------------------------------------
(* Localizer.Run *)

\* a bound of the model: Run is called with 1..MaxWorkers workers
MaxWorkers == 2

\* the informers whose HasSynced functions Run waits for: locSynced,
\* globSynced, chartSynced and manifestSynced
Caches == {"Localization", "Globalization", "HelmChart", "Manifest"}

\* pc: "idle" before the call, "waiting" in WaitForNamedCacheSync, "startLoc"
\* and "startGlob" at the two go statements, "blocked" at <-stopCh,
\* "returned" after the return; waited: how the wait ended; synced: the caches
\* whose HasSynced answers true; stopped: stopCh is closed; locController and
\* globController: the workers Run started them with (0: not started);
\* stoppedUnsynced: stopCh was closed while a cache had not synced
RunState(pc, workers, synced) ==
    [pc |-> pc, workers |-> workers, waited |-> "", synced |-> synced, stopped |-> FALSE,
     locController |-> 0, globController |-> 0, stoppedUnsynced |-> FALSE]

NotRunning == RunState("idle", 0, {})

\* an informer finishes its initial list: its HasSynced answers true from now on
SyncCache ==
    /\ \E c \in Caches \ run.synced : run' = [run EXCEPT !.synced = @ \cup {c}]
    /\ UNCHANGED <<globs, locs, charts, manifests, got, desc, applied, previous, rec, build, bind, agent, helm>>

\* the owner of stopCh closes it
Stop ==
    /\ ~run.stopped
    /\ run' = [run EXCEPT !.stopped = TRUE, !.stoppedUnsynced = (run.synced # Caches)]
    /\ UNCHANGED <<globs, locs, charts, manifests, got, desc, applied, previous, rec, build, bind, agent, helm>>

\* WaitSynced asking three of the four caches only
WaitSyncedWithoutManifests ==
    /\ run.pc = "waiting"
    /\ Caches \ {"Manifest"} \subseteq run.synced
    /\ run' = [run EXCEPT !.pc = "startLoc", !.waited = "synced"]
    /\ UNCHANGED <<globs, locs, charts, manifests, got, desc, applied, previous, rec, build, bind, agent, helm>>

\* WaitForNamedCacheSync returns true: a poll of the wait found all four
\* HasSynced functions answering true.  The poll asks them before it looks at
\* stopCh, so it may do so after stopCh was closed.
WaitSynced ==
    /\ run.pc = "waiting"
    /\ run.synced = Caches
    /\ run' = [run EXCEPT !.pc = "startLoc", !.waited = "synced"]
    /\ UNCHANGED <<globs, locs, charts, manifests, got, desc, applied, previous, rec, build, bind, agent, helm>>

\* WaitForNamedCacheSync returns false because stopCh is closed, and Run
\* returns
WaitStopped ==
    /\ run.pc = "waiting"
    /\ run.stopped
    /\ run' = [run EXCEPT !.pc = "returned", !.waited = "stopped"]
    /\ UNCHANGED <<globs, locs, charts, manifests, got, desc, applied, previous, rec, build, bind, agent, helm>>

\* go l.locController.Run(workers, stopCh)
StartLocController ==
    /\ run.pc = "startLoc"
    /\ run' = [run EXCEPT !.pc = "startGlob", !.locController = run.workers]
    /\ UNCHANGED <<globs, locs, charts, manifests, got, desc, applied, previous, rec, build, bind, agent, helm>>

\* go l.globController.Run(workers, stopCh)
StartGlobController ==
    /\ run.pc = "startGlob"
    /\ run' = [run EXCEPT !.pc = "blocked", !.globController = run.workers]
    /\ UNCHANGED <<globs, locs, charts, manifests, got, desc, applied, previous, rec, build, bind, agent, helm>>

\* <-stopCh, then Run returns
Unblock ==
    /\ run.pc = "blocked"
    /\ run.stopped
    /\ run' = [run EXCEPT !.pc = "returned"]
    /\ UNCHANGED <<globs, locs, charts, manifests, got, desc, applied, previous, rec, build, bind, agent, helm>>

----------------------------------------------------------------------------
(* Specification of the reconciliation: one Globalization and one          *)
(* Localization with any overridePolicy, valid or not, and any target,     *)
(* existing (c1, m1) or not (c2, m2), with or without a finalizer of       *)
(* another controller; operators delete them and the workers reconcile     *)
(* them in any order                                                       *)

Policies == {"ApplyNow", "ApplyLater", "ApplySometime"}

Init ==
    /\ \E globPolicy, locPolicy \in Policies, globFeed, locFeed \in Feeds,
          others \in SUBSET {"example.com/hold"} :
        /\ globs = [n \in {"g1"} |->
                      [Declaration(n, "", 1, SecondsPerMinute, FALSE, globPolicy, globFeed, FALSE)
                          EXCEPT !.finalizers = @ \cup others]]
        /\ locs = [n \in {"l1"} |->
                      [Declaration(n, "ns1", 1, SecondsPerMinute, FALSE, locPolicy, locFeed, FALSE)
                          EXCEPT !.finalizers = @ \cup others]]
    /\ charts = {[kind |-> chartKind, name |-> "c1"]}
    /\ manifests = {[kind |-> "Deployment", name |-> "m1"]}
    /\ got = NoCall
    /\ desc = NoDescription
    /\ applied = NoRun
    /\ previous = NoRun
    /\ rec = NoReconcile
    /\ run = NotRunning
    /\ build = NoBuild
    /\ bind = NoBind
    /\ agent = NoAgent
    /\ helm = NoHelm

Next ==
    \/ ReconcileLocalization
    \/ ReconcileGlobalization
    \/ DeleteLocalization
    \/ DeleteGlobalization

Spec == Init /\ [][Next]_vars

\* the declarations of Init that target the chart c1, which exists, or the
\* Deployment m2, which does not
DeletionFeeds == {[kind |-> chartKind, name |-> "c1"], [kind |-> "Deployment", name |-> "m2"]}

InitDeletion ==
    /\ Init
    /\ globs["g1"].feed \in DeletionFeeds
    /\ locs["l1"].feed \in DeletionFeeds

\* a reconcile during which the lister, the callback and the API server all
\* answer without error
NoFailure == Answers(FALSE, FALSE, FALSE)

\* the controllers queue a declaration on every change of it and queue it
\* again, with backoff, whenever the handler returns an error; the API server
\* and the callbacks do not fail for ever.  So a declaration whose reconcile
\* still has something to change is in the end reconciled without failure.
SpecDeletion ==
    /\ InitDeletion
    /\ [][Next]_vars
    /\ \A n \in LocNames : WF_vars(SyncLocalization(n, NoFailure))
    /\ \A n \in GlobNames : WF_vars(SyncGlobalization(n, NoFailure))

----------------------------------------------------------------------------
(* Specification of Run: it is called with any number of workers while any  *)
(* of the caches have synced already; the other caches sync and the stop    *)
(* channel is closed at any moment                                          *)

InitRun ==
    /\ globs = [n \in {} |-> NoDeclaration]
    /\ locs = [n \in {} |-> NoDeclaration]
    /\ charts = {}
    /\ manifests = {}
    /\ got = NoCall
    /\ desc = NoDescription
    /\ applied = NoRun
    /\ previous = NoRun
    /\ rec = NoReconcile
    /\ \E workers \in 1..MaxWorkers, synced \in SUBSET Caches :
        run = RunState("waiting", workers, synced)
    /\ build = NoBuild
    /\ bind = NoBind
    /\ agent = NoAgent
    /\ helm = NoHelm

NextRun ==
    \/ SyncCache
    \/ Stop
    \/ WaitSynced
    \/ WaitStopped
    \/ StartLocController
    \/ StartGlobController
    \/ Unblock

SpecRun == InitRun /\ [][NextRun]_vars

----------------------------------------------------------------------------
(* Specification of the ordering.  The four sample declarations target the *)
(* Deployment m1 with any priorities, creation instants and deletion       *)
(* marks; l1 lives in ns1 and l2 in either namespace.  The chart c1 exists *)
(* and has no declaration; c2 and m2 do not exist.                         *)

SampleFeed == [kind |-> "Deployment", name |-> "m1"]

InitOverrides ==
    /\ \E prio \in [GlobNames \cup LocNames -> Priorities],
          created \in [GlobNames \cup LocNames -> Instants],
          deleted \in [GlobNames \cup LocNames -> BOOLEAN],
          ns2 \in Namespaces :
            /\ globs = [n \in GlobNames |->
                          Declaration(n, "", prio[n], created[n], deleted[n], "ApplyLater",
                                      SampleFeed, FALSE)]
            /\ locs = [n \in LocNames |->
                          Declaration(n, IF n = "l1" THEN "ns1" ELSE ns2,
                                      prio[n], created[n], deleted[n], "ApplyLater",
                                      SampleFeed, FALSE)]
    /\ charts = {[kind |-> chartKind, name |-> "c1"]}
    /\ manifests = {SampleFeed}
    /\ got = NoCall
    /\ desc = NoDescription
    /\ applied = NoRun
    /\ previous = NoRun
    /\ rec = NoReconcile
    /\ run = NotRunning
    /\ build = NoBuild
    /\ bind = NoBind
    /\ agent = NoAgent
    /\ helm = NoHelm

NextOverrides == GetOverrides

SpecOverrides == InitOverrides /\ [][NextOverrides]_vars

----------------------------------------------------------------------------
(* Specification of the Description build.  g1 and l1 target the first     *)
(* chart or manifest, g2 and l2 either one; all four were created in the   *)
(* same second, g2 and l2 with any priority; at most one declaration has   *)
(* payloads that do not parse; the second chart or manifest may be missing; *)
(* g2 and l2 may be being deleted when both target the second one          *)

\* the Deployment m1 as its Manifest holds it, and m2, which has no replicas
SampleManifest(feed) ==
    IF feed.name = "m1"
    THEN JsonBytes(feed, [EmptyDoc EXCEPT !["replicas"] = "2"])
    ELSE JsonBytes(feed, EmptyDoc)

RawChoices == {SampleManifest(f) : f \in ManifestFeeds} \cup {BadBytes}

Descriptions(deployer) ==
    CASE deployer = "Helm" ->
            {[namespace |-> "ns1", deployer |-> deployer, charts |-> c, raw |-> <<>>] :
                c \in UNION {[1..n -> ChartFeeds] : n \in 1..MaxEntries}}
      [] deployer = "Generic" ->
            {[namespace |-> "ns1", deployer |-> deployer, charts |-> <<>>, raw |-> r] :
                r \in UNION {[1..n -> RawChoices] : n \in 1..MaxEntries}}
      [] OTHER ->
            {[namespace |-> "ns1", deployer |-> deployer, charts |-> <<>>, raw |-> r] :
                r \in [1..1 -> RawChoices]}

FirstTarget(deployer) ==
    IF deployer = "Helm" THEN [kind |-> chartKind, name |-> "c1"]
    ELSE [kind |-> "Deployment", name |-> "m1"]

SecondTarget(deployer) ==
    IF deployer = "Helm" THEN [kind |-> chartKind, name |-> "c2"]
    ELSE [kind |-> "Deployment", name |-> "m2"]

InitDescription ==
    /\ \E deployer \in {"Helm", "Generic", "Skaffold"} :
        /\ desc \in Descriptions(deployer)
        /\ \E g2feed, l2feed \in {FirstTarget(deployer), SecondTarget(deployer)},
              prio2 \in Priorities,
              bad \in GlobNames \cup LocNames \cup {"none"},
              gone \in BOOLEAN :
            LET feedOf(n) == CASE n = "g2" -> g2feed [] n = "l2" -> l2feed
                               [] OTHER -> FirstTarget(deployer)
                prioOf(n) == IF n \in {"g2", "l2"} THEN prio2 ELSE 1
                deletedOf(n) == gone /\ n \in {"g2", "l2"}
            IN  /\ gone => (g2feed = SecondTarget(deployer) /\ l2feed = SecondTarget(deployer))
                /\ globs = [n \in GlobNames |->
                              Declaration(n, "", prioOf(n), SecondsPerMinute - 1, deletedOf(n),
                                          "ApplyLater", feedOf(n), n = bad)]
                /\ locs = [n \in LocNames |->
                              Declaration(n, "ns1", prioOf(n), SecondsPerMinute - 1, deletedOf(n),
                                          "ApplyLater", feedOf(n), n = bad)]
    /\ \E second \in BOOLEAN :
        /\ charts = {f \in ChartFeeds : f.name = "c1" \/ second}
        /\ manifests = {f \in ManifestFeeds : f.name = "m1" \/ second}
    /\ got = NoCall
    /\ applied = NoRun
    /\ previous = NoRun
    /\ rec = NoReconcile
    /\ run = NotRunning
    /\ build = NoBuild
    /\ bind = NoBind
    /\ agent = NoAgent
    /\ helm = NoHelm

NextDescription == ApplyToDescription

SpecDescription == InitDescription /\ [][NextDescription]_vars

----------------------------------------------------------------------------
(* Specification of builds during deletions: the Globalization g1 and the   *)
(* Localization l1, with a supported policy each, target the Deployment m1, *)
(* which a Generic Description of ns1 holds one or more times; operators    *)
(* delete the declarations and the workers reconcile them while the build   *)
(* goes from entry to entry                                                 *)

InitConcurrent ==
    /\ \E globPolicy, locPolicy \in {"ApplyNow", "ApplyLater"} :
        /\ globs = [n \in {"g1"} |->
                      Declaration(n, "", 1, SecondsPerMinute, FALSE, globPolicy, SampleFeed, FALSE)]
        /\ locs = [n \in {"l1"} |->
                      Declaration(n, "ns1", 1, SecondsPerMinute, FALSE, locPolicy, SampleFeed, FALSE)]
    /\ \E n \in 1..MaxEntries :
        desc = [namespace |-> "ns1", deployer |-> "Generic", charts |-> <<>>,
                raw |-> [i \in 1..n |-> SampleManifest(SampleFeed)]]
    /\ charts = {}
    /\ manifests = {SampleFeed}
    /\ got = NoCall
    /\ applied = NoRun
    /\ previous = NoRun
    /\ rec = NoReconcile
    /\ run = NotRunning
    /\ build = StartedBuild(desc)
    /\ bind = NoBind
    /\ agent = NoAgent
    /\ helm = NoHelm

NextConcurrent ==
    \/ DeleteLocalization
    \/ DeleteGlobalization
    \/ ReconcileLocalization
    \/ ReconcileGlobalization
    \/ BuildEntry

SpecConcurrent == InitConcurrent /\ [][NextConcurrent]_vars

----------------------------------------------------------------------------
(* Specification of Bind: any list of up to MaxClusters cluster names, with *)
(* repetitions, and an API server that takes the update or refuses it       *)

InitBind ==
    /\ globs = [n \in {} |-> NoDeclaration]
    /\ locs = [n \in {} |-> NoDeclaration]
    /\ charts = {}
    /\ manifests = {}
    /\ got = NoCall
    /\ desc = NoDescription
    /\ applied = NoRun
    /\ previous = NoRun
    /\ rec = NoReconcile
    /\ run = NotRunning
    /\ build = NoBuild
    /\ \E clusters \in UNION {[1..n -> ClusterNames] : n \in 0..MaxClusters},
          injectErr \in {"", "binding error"} :
        bind = [NoBind EXCEPT !.clusters = clusters, !.injectErr = injectErr]
    /\ agent = NoAgent
    /\ helm = NoHelm

NextBind == BindSubscription

SpecBind == InitBind /\ [][NextBind]_vars

----------------------------------------------------------------------------
(* Specification of the agent: with or without leader election and socket   *)
(* connection; the child cluster holds no Secret parent-cluster, one of the  *)
(* configured parent or one of a former parent; the parent has no request    *)
(* of this cluster, a pending one or an approved one.  agent.ctx is          *)
(* cancelled, the lease is lost and the request is approved at any moment.   *)

FormerParentURL == "https://former-parent"

InitAgent ==
    /\ globs = [n \in {} |-> NoDeclaration]
    /\ locs = [n \in {} |-> NoDeclaration]
    /\ charts = {}
    /\ manifests = {}
    /\ got = NoCall
    /\ desc = NoDescription
    /\ applied = NoRun
    /\ previous = NoRun
    /\ rec = NoReconcile
    /\ run = NotRunning
    /\ build = NoBuild
    /\ bind = NoBind
    /\ helm = NoHelm
    /\ \E leaderElect, gate \in BOOLEAN,
          secret \in {NoSecret, ParentClusterSecret(ParentURL, StoredToken),
                      ParentClusterSecret(FormerParentURL, StoredToken)},
          parent \in {"none", "pending", "approved"} :
        agent = [NoAgent EXCEPT !.leaderElect = leaderElect, !.gate = gate,
                                !.secret = secret, !.parent = parent]

NextAgent ==
    \/ Cancel
    \/ Approve
    \/ Run
    \/ Acquire
    \/ LoseLease
    \/ StopLeading
    \/ RegisterAttempt
    \/ PollApproval
    \/ EndWait
    \/ StartComponents
    \/ RunStatusManager
    \/ RunDeployer
    \/ AgentDone
    \/ StoreRound

SpecAgent == InitAgent /\ [][NextAgent]_vars

\* a round of storeParentClusterCredentials in which the API server of the
\* child cluster accepts the write
StoreAccepted == StoreRound /\ agent'.store = "done"

\* the agent without leader election and socket connection
InitStore ==
    /\ InitAgent
    /\ ~agent.leaderElect
    /\ ~agent.gate

NextStore ==
    \/ Cancel
    \/ Approve
    \/ Run
    \/ RegisterAttempt
    \/ PollApproval
    \/ EndWait
    \/ StartComponents
    \/ RunStatusManager
    \/ RunDeployer
    \/ AgentDone
    \/ StoreRound

\* the goroutine of storeParentClusterCredentials keeps running and the API
\* server does not refuse its writes for ever
SpecStore == InitStore /\ [][NextStore]_vars /\ WF_vars(StoreRound) /\ WF_vars(StoreAccepted)

----------------------------------------------------------------------------
(* Specification of the helm helpers: every installed release, HelmRelease  *)
(* and values of the small sets above, then calls of ReleaseNeedsUpgrade    *)
(* and UninstallRelease                                                     *)

InitHelm ==
    /\ globs = [n \in {} |-> NoDeclaration]
    /\ locs = [n \in {} |-> NoDeclaration]
    /\ charts = {}
    /\ manifests = {}
    /\ got = NoCall
    /\ desc = NoDescription
    /\ applied = NoRun
    /\ previous = NoRun
    /\ rec = NoReconcile
    /\ run = NotRunning
    /\ build = NoBuild
    /\ bind = NoBind
    /\ agent = NoAgent
    /\ \E relName, hrName \in {"r1", "r2"},
          releaseName \in {<<>>, <<"r1">>, <<"r2">>},
          relNamespace, targetNamespace \in Namespaces,
          relChart, chart \in {"nginx", "redis"},
          relVersion, chartVersion \in {"1.0.0", "1.1.0"},
          config, vals \in HelmValues :
        helm = [NoHelm EXCEPT
                   !.rel = Release(relName, relNamespace, relChart, relVersion, config),
                   !.hr = HelmRelease(hrName, releaseName, targetNamespace, chart, chartVersion),
                   !.vals = vals,
                   !.op = "ready"]

NextHelm ==
    \/ NeedsUpgrade
    \/ Uninstall

SpecHelm == InitHelm /\ [][NextHelm]_vars

----------------------------------------------------------------------------
(* Specification of the sample scenario: the Globalization g1 and the       *)
(* Localization l1, both of priority 300, and the Localization l2 of        *)
(* priority 600 target the Deployment m1; each was created at any of the    *)
(* instants.  A Generic Description of ns1 is built; m2 may be missing.     *)

ScenarioNames == {"g1", "l1", "l2"}

InitScenario ==
    /\ \E created \in [ScenarioNames -> Instants] :
        /\ globs = [n \in {"g1"} |->
                      Declaration(n, "", LowerPriority, created[n], FALSE, "ApplyLater",
                                  SampleFeed, FALSE)]
        /\ locs = [n \in {"l1", "l2"} |->
                      Declaration(n, "ns1", IF n = "l1" THEN LowerPriority ELSE HigherPriority,
                                  created[n], FALSE, "ApplyLater", SampleFeed, FALSE)]
    /\ desc \in Descriptions("Generic")
    /\ charts = {}
    /\ \E second \in BOOLEAN : manifests = {f \in ManifestFeeds : f.name = "m1" \/ second}
    /\ got = NoCall
    /\ applied = NoRun
    /\ previous = NoRun
    /\ rec = NoReconcile
    /\ run = NotRunning
    /\ build = NoBuild
    /\ bind = NoBind
    /\ agent = NoAgent
    /\ helm = NoHelm

NextScenario == ApplyToDescription

SpecScenario == InitScenario /\ [][NextScenario]_vars

----------------------------------------------------------------------------
(* Properties of getOverrides *)

\* the configs of a sequence of declarations, in order
ConfigsOf(decls) == Flatten([i \in 1..Len(decls) |-> Overrides(decls[i])])

ActiveOf(list) == {d \in Range(list) : ~d.deleted}

\* a before b by ascending priority, then by earlier full creation instant
PriorityThenCreation(a, b) ==
    \/ a.priority < b.priority
    \/ a.priority = b.priority /\ a.creation <= b.creation

\* the arrangements of the set S that sortByPriorityThenCreation allows
SortedArrangements(S) ==
    {s \in Perms(S) : \A i, j \in 1..Len(s) : i < j => PriorityThenCreation(s[i], s[j])}

\* position of config c in the returned sequence (0 when it is not there)
PositionOf(c) ==
    IF c \in Range(got.configs)
    THEN CHOOSE i \in 1..Len(got.configs) : got.configs[i] = c
    ELSE 0

Resolved == got.called /\ got.err = ""

\* C1: getOverrides returns the configs of the active Globalizations sorted by
\* ascending priority, ties by earlier full creation instant first, followed
\* by those of the active Localizations of the namespace sorted the same way
C1_OrderIsPriorityThenCreation ==
    Resolved =>
        \E gs \in SortedArrangements(ActiveOf(got.globList)),
           ls \in SortedArrangements(ActiveOf(got.locList)) :
            got.configs = ConfigsOf(gs) \o ConfigsOf(ls)

\* the configs of the cached Globalizations, and of the cached Localizations
GlobConfigs == UNION {Range(Overrides(globs[n])) : n \in DOMAIN globs}
LocConfigs == UNION {Range(Overrides(locs[n])) : n \in DOMAIN locs}

\* C2: scope precedence: every config contributed by a Globalization precedes
\* every config contributed by a Localization, whatever their priorities
C2_GlobalizationsPrecedeLocalizations ==
    Resolved =>
        \A i, j \in 1..Len(got.configs) :
            (got.configs[i] \in GlobConfigs /\ got.configs[j] \in LocConfigs) => i < j

\* a Globalization of higher priority than a Localization, both contributing
C2_Witness ==
    /\ Resolved
    /\ \E g \in ActiveOf(got.globList), l \in ActiveOf(got.locList) :
        /\ g.priority > l.priority
        /\ Range(Overrides(g)) \cup Range(Overrides(l)) \subseteq Range(got.configs)

\* C3: priority precedence within one scope: of two active declarations of
\* the same kind with different priorities, every config of the
\* lower-priority one precedes every config of the higher-priority one
C3_HigherPriorityComesLater ==
    Resolved =>
        \A list \in {got.globList, got.locList} :
            \A a, b \in ActiveOf(list) :
                a.priority < b.priority =>
                    \A ca \in Range(Overrides(a)), cb \in Range(Overrides(b)) :
                        /\ PositionOf(ca) > 0
                        /\ PositionOf(ca) < PositionOf(cb)

\* two active declarations of each kind with different priorities, the one
\* of lower priority listed last by the cache
C3_Witness ==
    /\ Resolved
    /\ \A list \in {got.globList, got.locList} :
        /\ Len(list) = 2
        /\ ActiveOf(list) = Range(list)
        /\ list[2].priority < list[1].priority

\* C4: deletion exclusion: a listed declaration whose deletionTimestamp is
\* set contributes no config
C4_DeletedContributesNothing ==
    Resolved =>
        \A d \in Range(got.globList) \cup Range(got.locList) :
            d.deleted => Range(Overrides(d)) \cap Range(got.configs) = {}

\* a deleted Globalization and a deleted Localization are listed with the
\* label of the target, next to active ones that contribute
C4_Witness ==
    /\ Resolved
    /\ \A list \in {got.globList, got.locList} :
        /\ \E d \in Range(list) : d.deleted /\ IndexLabel(got.feed) \in d.labels
        /\ \E d \in Range(list) : ~d.deleted /\ Range(Overrides(d)) \subseteq Range(got.configs)

\* the declarations the call listed and did not skip
Selected == ActiveOf(got.globList) \cup ActiveOf(got.locList)

\* the number of configs the declarations of S authored
RECURSIVE AuthoredIn(_)
AuthoredIn(S) ==
    IF S = {} THEN 0
    ELSE LET d == CHOOSE x \in S : TRUE
         IN  Len(Overrides(d)) + AuthoredIn(S \ {d})

\* Spec.Overrides of d stands in the returned sequence in one piece
InOnePiece(d) ==
    \E k \in 0..Len(got.configs) :
        /\ k + Len(Overrides(d)) <= Len(got.configs)
        /\ SubSeq(got.configs, k + 1, k + Len(Overrides(d))) = Overrides(d)

\* C20: the returned sequence holds Spec.Overrides of every selected active
\* declaration in one piece and in the authored order, holds no config twice
\* and is as long as those lists together
C20_FlatteningKeepsAuthoredOrder ==
    Resolved =>
        /\ \A d \in Selected : InOnePiece(d)
        /\ \A i, j \in 1..Len(got.configs) : got.configs[i] = got.configs[j] => i = j
        /\ Len(got.configs) = AuthoredIn(Selected)

\* all four declarations are active and selected: l1 with its two configs,
\* the label before the replicas, and the three others with one config each
C20_Witness ==
    /\ Resolved
    /\ Cardinality(Selected) = 4
    /\ Len(got.configs) = 5
    /\ \E i \in 1..4 : /\ got.configs[i].name = "l1/1"
                       /\ got.configs[i + 1].name = "l1/2"

\* C21: a Localization that lives in another namespace than the one the
\* overrides are computed for contributes no config, even when it carries the
\* index label of the target; an active Globalization that carries the label
\* contributes all its configs, whatever the namespace
C21_NamespaceScoping ==
    Resolved =>
        /\ \A n \in DOMAIN locs :
            locs[n].namespace # got.namespace =>
                Range(Overrides(locs[n])) \cap Range(got.configs) = {}
        /\ \A n \in DOMAIN globs :
            (IndexLabel(got.feed) \in globs[n].labels /\ ~globs[n].deleted) =>
                Range(Overrides(globs[n])) \subseteq Range(got.configs)

\* the call is made for ns2, where the active l2 lives; l1, active and
\* labelled for the target, lives in ns1; g1 is active
C21_Witness ==
    /\ Resolved
    /\ got.namespace = "ns2"
    /\ locs["l2"].namespace = "ns2" /\ ~locs["l2"].deleted
    /\ locs["l1"].namespace = "ns1" /\ ~locs["l1"].deleted
    /\ IndexLabel(got.feed) \in locs["l1"].labels
    /\ ~globs["g1"].deleted
    /\ Range(Overrides(locs["l2"])) \cup Range(Overrides(globs["g1"])) \subseteq Range(got.configs)

----------------------------------------------------------------------------
(* Properties of ApplyOverridesToDescription *)

PerEntry == applied.called /\ desc.deployer \in {"Helm", "Generic"}

\* what resolving and patching entry idx of desc on its own gives when the
\* listers return o
EntryOutcome(idx, o) ==
    LET isHelm == desc.deployer = "Helm"
        base == IF isHelm THEN BlankBytes ELSE desc.raw[idx]
        feed == IF isHelm THEN desc.charts[idx] ELSE base.feed
        ov == getOverrides(desc.namespace, feed, o.globList, o.locList)
    IN  IF ~isHelm /\ base.kind # "json"
        THEN [err |-> "json: cannot unmarshal", result |-> NilBytes]
        ELSE IF ov.err # "" THEN [err |-> ov.err, result |-> NilBytes]
        ELSE applyOverrides(base, ov.configs)

\* the outcomes of all entries, for every way the caches may list
Outcomes ==
    {[idx \in 1..EntryCount(desc) |-> EntryOutcome(idx, listed[idx])] :
        listed \in RunListings(desc)}

FailedIn(outs) == {idx \in DOMAIN outs : outs[idx].err # ""}

ErrorsOf(outs) ==
    LET failed == SelectSeq([idx \in DOMAIN outs |-> outs[idx]], LAMBDA out : out.err # "")
    IN  [i \in 1..Len(failed) |-> failed[i].err]

\* the run went through every entry with the outcomes outs: the entries that
\* did not fail hold their own patched result and the aggregate holds the
\* errors of the failed ones, one each
Explains(outs) ==
    /\ Len(applied.desc.raw) = EntryCount(desc)
    /\ \A idx \in DOMAIN outs :
        outs[idx].err = "" => applied.desc.raw[idx] = outs[idx].result
    /\ applied.errs = ErrorsOf(outs)

\* C6: failure isolation: the failure of one entry never stops the pass; each
\* entry that does not fail is replaced by its own patched result and the
\* returned aggregate holds exactly one error per failed entry
C6_FailureIsolation ==
    PerEntry => \E outs \in Outcomes : Explains(outs)

\* the first entry fails, a later one is patched by the overrides of its own
\* target, and one error is returned
C6_Witness ==
    /\ PerEntry
    /\ \E outs \in Outcomes :
        /\ Explains(outs)
        /\ 1 \in FailedIn(outs)
        /\ \E idx \in DOMAIN outs :
            /\ idx > 1
            /\ outs[idx].err = ""
            /\ applied.desc.raw[idx] \notin {NilBytes, BlankBytes}
            /\ desc.deployer = "Generic" => applied.desc.raw[idx] # desc.raw[idx]
        /\ Len(applied.errs) = Cardinality(FailedIn(outs))

\* C7 as claimed: in both modes the slot of every failed entry is left unset
C7_FailedSlotIsUnset ==
    PerEntry =>
        \E outs \in Outcomes :
            /\ Explains(outs)
            /\ \A idx \in FailedIn(outs) : applied.desc.raw[idx] = NilBytes

\* C7 amended: the slot of a failed entry is left unset in Helm mode and
\* still holds the payload it had before the call in Generic mode
C7_FailedSlotUnsetOrUntouched ==
    PerEntry =>
        \E outs \in Outcomes :
            /\ Explains(outs)
            /\ \A idx \in FailedIn(outs) :
                applied.desc.raw[idx] =
                    IF desc.deployer = "Helm" THEN NilBytes ELSE desc.raw[idx]

\* a Generic run in which the patch of a well-formed manifest failed and the
\* manifest is still in its slot
C7_Witness ==
    /\ PerEntry
    /\ desc.deployer = "Generic"
    /\ \E outs \in Outcomes :
        /\ Explains(outs)
        /\ \E idx \in FailedIn(outs) :
            /\ desc.raw[idx].kind = "json"
            /\ desc.raw[idx].feed \in manifests
            /\ applied.desc.raw[idx] = desc.raw[idx]

\* C8: with a deployer that is neither Helm nor Generic the call returns an
\* error, resolves no target and leaves the Description as it was
C8_UnsupportedDeployer ==
    (applied.called /\ desc.deployer \notin {"Helm", "Generic"}) =>
        /\ Len(applied.errs) = 1
        /\ applied.lookups = 0
        /\ applied.desc = desc

\* the unsupported Description holds a manifest that exists and that an
\* active declaration would have patched
C8_Witness ==
    /\ applied.called
    /\ desc.deployer \notin {"Helm", "Generic"}
    /\ \E idx \in 1..Len(desc.raw) :
        /\ desc.raw[idx].kind = "json"
        /\ desc.raw[idx].feed \in manifests
        /\ \E n \in DOMAIN globs :
            /\ IndexLabel(desc.raw[idx].feed) \in globs[n].labels
            /\ ~globs[n].malformed

\* C9: two runs from the same Description over the same declarations leave
\* the same Spec.Raw, whatever order the caches list the declarations in
C9_SameRawOnEveryRun ==
    (applied.called /\ previous.called) => applied.desc.raw = previous.desc.raw

\* the entries whose target the run looks up: all in Helm mode, those that
\* hold a JSON object in Generic mode
LookedUp == {idx \in 1..EntryCount(desc) : desc.deployer = "Helm" \/ desc.raw[idx].kind = "json"}

\* the entries of desc whose chart is absent or whose Feed no manifest matches
MissingEntries == {idx \in LookedUp : EntryFeed(desc, idx) \notin charts \cup manifests}

\* how often the error e stands in the returned aggregate
Count(e) == Cardinality({i \in 1..Len(applied.errs) : applied.errs[i] = e})

\* C18: for a target that is absent getOverrides returns an error and no
\* override list, and the run records one such error for each entry that
\* names an absent target and leaves the slot of the entry as for any failed
\* entry, not as patched with an empty list
C18_NotFoundIsReported ==
    PerEntry =>
        /\ \A idx \in MissingEntries :
            LET o == getOverrides(desc.namespace, EntryFeed(desc, idx), <<>>, <<>>)
            IN  /\ o.err = "NotFound"
                /\ o.configs = <<>>
                /\ applied.desc.raw[idx] =
                        IF desc.deployer = "Helm" THEN NilBytes ELSE desc.raw[idx]
        /\ Count("NotFound") = Cardinality(MissingEntries)

\* a Helm run over the absent chart c2 and then the chart c1: one NotFound
\* error, the slot of c2 unset and the slot of c1 filled
C18_Witness ==
    /\ PerEntry
    /\ desc.deployer = "Helm"
    /\ desc.charts = <<[kind |-> chartKind, name |-> "c2"], [kind |-> chartKind, name |-> "c1"]>>
    /\ MissingEntries = {1}
    /\ applied.errs = <<"NotFound">>
    /\ applied.desc.raw[2] # NilBytes

\* the declarations a getOverrides call for feed would find and use
ActiveFor(feed) ==
    {globs[n] : n \in {m \in DOMAIN globs : IndexLabel(feed) \in globs[m].labels /\ ~globs[m].deleted}}
    \cup {locs[n] : n \in {m \in DOMAIN locs : /\ IndexLabel(feed) \in locs[m].labels
                                               /\ locs[m].namespace = desc.namespace
                                               /\ ~locs[m].deleted}}

\* the entries whose target exists and has no active declaration
QuietEntries ==
    {idx \in LookedUp : /\ EntryFeed(desc, idx) \in charts \cup manifests
                        /\ ActiveFor(EntryFeed(desc, idx)) = {}}

\* C19: for a target that exists and that no active Globalization or
\* Localization matches getOverrides returns the empty sequence and no error;
\* the run reports no error for the entry and, in Generic mode, leaves in its
\* slot the manifest as it was
C19_NoOverridesIsIdentity ==
    PerEntry =>
        /\ \A idx \in QuietEntries :
            /\ \A o \in EntryListings(desc, idx) :
                LET r == getOverrides(desc.namespace, EntryFeed(desc, idx), o.globList, o.locList)
                IN  r.err = "" /\ r.configs = <<>>
            /\ applied.desc.raw[idx] =
                    IF desc.deployer = "Helm" THEN BlankBytes ELSE desc.raw[idx]
        /\ Len(applied.errs) <= EntryCount(desc) - Cardinality(QuietEntries)

\* a Generic run over the Deployment m2 alone, which exists and whose only
\* declarations, g2 and l2, are being deleted
C19_Witness ==
    /\ PerEntry
    /\ desc.deployer = "Generic"
    /\ EntryCount(desc) = 1
    /\ QuietEntries = {1}
    /\ desc.raw[1].feed.name = "m2"
    /\ globs["g2"].deleted /\ IndexLabel(desc.raw[1].feed) \in globs["g2"].labels
    /\ locs["l2"].deleted /\ IndexLabel(desc.raw[1].feed) \in locs["l2"].labels
    /\ applied.errs = <<>>
    /\ applied.desc.raw = desc.raw

\* the Deployment m1 after the overrides of the sample scenario
ScenarioResult ==
    JsonBytes(SampleFeed, [replicas |-> "3", label |-> "clusternet-5l82l", annotation |-> "foo=bar"])

\* C22: in the sample scenario every entry that holds the Deployment m1 ends
\* with replicas 3, the label and the annotation, whichever declaration was
\* created first and in whatever order the caches list them
C22_SampleScenario ==
    applied.called =>
        /\ applied.errs = ErrorsOf([idx \in 1..Len(desc.raw) |->
                [err |-> CASE desc.raw[idx].kind # "json" -> "json: cannot unmarshal"
                           [] desc.raw[idx].feed \notin manifests -> "NotFound"
                           [] OTHER -> ""]])
        /\ \A idx \in 1..Len(desc.raw) :
            desc.raw[idx] = SampleManifest(SampleFeed) => applied.desc.raw[idx] = ScenarioResult

\* the Localization of priority 600 was created before the two declarations
\* of priority 300 and the Deployment m1 was patched
C22_Witness ==
    /\ applied.called
    /\ locs["l2"].priority = HigherPriority
    /\ locs["l2"].creation < locs["l1"].creation
    /\ locs["l2"].creation < globs["g1"].creation
    /\ globs["g1"].priority = LowerPriority /\ locs["l1"].priority = LowerPriority
    /\ desc.raw[1] = SampleManifest(SampleFeed)
    /\ applied.desc.raw[1] = ScenarioResult
    /\ applied.desc.raw[1] # desc.raw[1]

\* the cache store showed the declaration n without deletionTimestamp
ShownActive(store, n) == n \in DOMAIN store /\ ~store[n].deleted

\* C23: whatever deletions and reconciles happen between the reads of a
\* build, an entry carries the label of l1 only if the Localization cache
\* showed l1 without deletionTimestamp at the read of that entry, and the
\* replicas of g1 and l1 only if a cache then showed one of them without
\* deletionTimestamp; the build returns no error
C23_BuildToleratesDeletion ==
    /\ build.acc.errs = <<>>
    /\ \A idx \in 1..Len(build.seen) :
        /\ build.acc.raw[idx].kind = "json"
        /\ build.acc.raw[idx].doc["label"] # Absent => ShownActive(build.seen[idx].locs, "l1")
        /\ build.acc.raw[idx].doc["replicas"] # desc.raw[idx].doc["replicas"] =>
                \/ ShownActive(build.seen[idx].locs, "l1")
                \/ ShownActive(build.seen[idx].globs, "g1")

\* the first entry was read while both declarations were active, the second
\* one after l1 was removed from the cache and while g1, being deleted, was
\* still in it: the second entry is left as it was
C23_Witness ==
    /\ Len(build.seen) = 2
    /\ ShownActive(build.seen[1].locs, "l1") /\ ShownActive(build.seen[1].globs, "g1")
    /\ build.acc.raw[1].doc["label"] # Absent
    /\ "l1" \notin DOMAIN build.seen[2].locs
    /\ "g1" \in DOMAIN build.seen[2].globs /\ build.seen[2].globs["g1"].deleted
    /\ build.acc.raw[2] = desc.raw[2]
    /\ build.acc.errs = <<>>

----------------------------------------------------------------------------
(* Properties of the handlers *)

\* C5: a reconcile of a declaration whose deletionTimestamp is set issues the
\* update that removes the engine's finalizer, whatever the overridePolicy
\* and whatever the outcome of the policy step
C5_DeletionAlwaysRemovesFinalizer ==
    (rec.called /\ rec.object.deleted) =>
        /\ Len(rec.did.updates) = 1
        /\ rec.did.updates[1] = WithoutFinalizer(rec.object)

\* C10: a reconcile of a declaration whose overridePolicy is neither ApplyNow
\* nor ApplyLater records exactly one warning event on the object, invokes
\* no callback and returns nil
C10_InvalidPolicyWarnsOnce ==
    (rec.called /\ rec.object.policy \notin {"ApplyNow", "ApplyLater"}) =>
        /\ rec.did.events = <<InvalidOverridePolicy(rec.object)>>
        /\ rec.did.events[1].type = "Warning"
        /\ rec.did.chartCalls = <<>>
        /\ rec.did.manifestCalls = <<>>
        /\ rec.did.ret = ""

\* a Localization with an invalid policy whose target exists is reconciled
\* while it is being deleted
C10_Witness ==
    /\ rec.called
    /\ rec.kind = "Localization"
    /\ rec.object.policy \notin {"ApplyNow", "ApplyLater"}
    /\ rec.object.deleted
    /\ ResolveTarget(rec.object.feed) = "found"

\* the target of the reconciled declaration exists, or not, in the listers
TargetExists == rec.object.feed \in charts \cup manifests

\* the lookup of the last reconcile answered: it found the target or
\* returned NotFound, and no other error
LookupAnswered == ~rec.answers.lookupFails

Callbacks == rec.did.chartCalls \o rec.did.manifestCalls

\* C11: a reconcile of an active ApplyNow declaration whose target does not
\* exist invokes no callback and returns nil
C11_NotFoundIsSuccess ==
    (/\ rec.called
     /\ rec.object.policy = "ApplyNow"
     /\ ~rec.object.deleted
     /\ LookupAnswered
     /\ ~TargetExists) =>
        /\ Callbacks = <<>>
        /\ rec.did.ret = ""

\* an active ApplyNow Globalization of the missing chart c2 was reconciled
C11_Witness ==
    /\ rec.called
    /\ rec.kind = "Globalization"
    /\ rec.object.policy = "ApplyNow"
    /\ ~rec.object.deleted
    /\ LookupAnswered
    /\ rec.object.feed = [kind |-> chartKind, name |-> "c2"]
    /\ rec.did.reads = <<rec.object.feed>>

\* C12: a reconcile of an ApplyNow declaration whose target exists invokes
\* one callback once, chartCallback for the chart kind and manifestCallback
\* otherwise, each with the target, and returns the error of the callback
C12_ExactlyOneCallback ==
    (/\ rec.called
     /\ rec.object.policy = "ApplyNow"
     /\ LookupAnswered
     /\ TargetExists) =>
        /\ Len(Callbacks) = 1
        /\ IF rec.object.feed.kind = chartKind
           THEN rec.did.chartCalls = <<rec.object.feed>>
           ELSE rec.did.manifestCalls = <<rec.object.feed>>
        /\ rec.answers.callbackFails => rec.did.ret = "callback failed"
        /\ rec.did.ret \in {"", "callback failed", "update failed"}

\* the manifestCallback of a Localization of the Deployment m1 failed
C12_Witness ==
    /\ rec.called
    /\ rec.kind = "Localization"
    /\ rec.object.policy = "ApplyNow"
    /\ rec.object.feed = [kind |-> "Deployment", name |-> "m1"]
    /\ LookupAnswered
    /\ rec.answers.callbackFails
    /\ rec.did.manifestCalls = <<rec.object.feed>>

\* C13: a reconcile of an ApplyLater declaration looks up no target, invokes
\* no callback and records no event; it issues an update only when the
\* declaration is being deleted, and that update removes the finalizer
C13_ApplyLaterHasNoSideEffect ==
    (rec.called /\ rec.object.policy = "ApplyLater") =>
        /\ rec.did.reads = <<>>
        /\ Callbacks = <<>>
        /\ rec.did.events = <<>>
        /\ rec.did.updates \in {<<>>, <<WithoutFinalizer(rec.object)>>}
        /\ rec.did.updates # <<>> => rec.object.deleted

\* both cases: an active ApplyLater Localization whose target exists was
\* reconciled after the ApplyLater Globalization had its finalizer removed
C13_Witness ==
    /\ rec.called
    /\ rec.kind = "Localization"
    /\ rec.object.policy = "ApplyLater"
    /\ ~rec.object.deleted
    /\ TargetExists
    /\ DOMAIN globs = {}

\* the cached copy of the declaration of the last reconcile
Cached == IF rec.kind = "Localization" THEN locs ELSE globs

\* C14: for an ApplyNow declaration that is being deleted and whose target
\* exists, the update is issued only when the callback was invoked and
\* returned nil; when the callback or the lookup fails the reconcile returns
\* that error, issues no update and the finalizer stays
C14_FinalizerRemovedAfterCallback ==
    (/\ rec.called
     /\ rec.object.policy = "ApplyNow"
     /\ rec.object.deleted
     /\ TargetExists) =>
        /\ rec.did.updates # <<>> =>
                /\ Len(Callbacks) = 1
                /\ ~rec.answers.callbackFails
                /\ LookupAnswered
        /\ (LookupAnswered /\ rec.answers.callbackFails) =>
                /\ rec.did.ret = "callback failed"
                /\ rec.did.updates = <<>>
        /\ ~LookupAnswered =>
                /\ rec.did.ret = "lookup failed"
                /\ rec.did.updates = <<>>
        /\ rec.did.updates = <<>> =>
                /\ rec.object.name \in DOMAIN Cached
                /\ Cached[rec.object.name].finalizers = rec.object.finalizers

\* the lookup failed for an ApplyNow Globalization of the chart c1 that is
\* being deleted
C14_Witness ==
    /\ rec.called
    /\ rec.kind = "Globalization"
    /\ rec.object.policy = "ApplyNow"
    /\ rec.object.deleted
    /\ rec.object.feed = [kind |-> chartKind, name |-> "c1"]
    /\ ~LookupAnswered
    /\ AppFinalizer \in globs["g1"].finalizers

\* what a reconcile may do to the cache store: an active declaration stays as
\* it is, a declaration that is being deleted stays, loses the engine's
\* finalizer or, with no finalizer left, goes
LifecycleStep(store, after) ==
    /\ DOMAIN after \subseteq DOMAIN store
    /\ \A n \in DOMAIN store :
        IF ~store[n].deleted
        THEN n \in DOMAIN after /\ after[n] = store[n]
        ELSE IF n \in DOMAIN after
        THEN after[n] \in {store[n], WithoutFinalizer(store[n])}
        ELSE store[n].finalizers = {AppFinalizer}

\* C15: a reconcile sends an update only for a declaration whose
\* deletionTimestamp is set; it leaves every active declaration as it is,
\* finalizer included, and changes no deletionTimestamp
C15_Lifecycle ==
    [][(ReconcileLocalization \/ ReconcileGlobalization) =>
            /\ LifecycleStep(locs, locs')
            /\ LifecycleStep(globs, globs')
            /\ rec'.did.updates # <<>> =>
                    /\ rec'.object.deleted
                    /\ rec'.did.updates[1].deleted]_vars

\* an active ApplyNow Localization was reconciled with success and kept its
\* finalizer, after the Globalization, deleted, was removed
C15_Witness ==
    /\ rec.called
    /\ rec.kind = "Localization"
    /\ rec.object.policy = "ApplyNow"
    /\ ~rec.object.deleted
    /\ Len(Callbacks) = 1
    /\ rec.did.ret = ""
    /\ "l1" \in DOMAIN locs
    /\ locs["l1"] = rec.object
    /\ AppFinalizer \in locs["l1"].finalizers
    /\ DOMAIN globs = {}

\* the declaration n of store is being deleted, has a supported policy and
\* still holds the engine's finalizer
PendingDeletion(store, n) ==
    /\ n \in DOMAIN store
    /\ store[n].deleted
    /\ store[n].policy \in {"ApplyNow", "ApplyLater"}
    /\ AppFinalizer \in store[n].finalizers

\* the engine's finalizer is off the declaration n, or n is gone
Released(store, n) == n \in DOMAIN store => AppFinalizer \notin store[n].finalizers

\* C16: a declaration with policy ApplyNow or ApplyLater that is being deleted
\* loses the engine's finalizer in the end, and is removed from the cache in
\* the end when no other finalizer holds it
C16_DeletionCompletes ==
    /\ PendingDeletion(locs, "l1") ~> Released(locs, "l1")
    /\ PendingDeletion(globs, "g1") ~> Released(globs, "g1")
    /\ (PendingDeletion(locs, "l1") /\ locs["l1"].finalizers = {AppFinalizer})
            ~> ("l1" \notin DOMAIN locs)
    /\ (PendingDeletion(globs, "g1") /\ globs["g1"].finalizers = {AppFinalizer})
            ~> ("g1" \notin DOMAIN globs)

\* the Localization is gone; the update of the ApplyNow Globalization, which
\* is being deleted, has just failed and will be tried again
C16_Witness ==
    /\ DOMAIN locs = {}
    /\ rec.called
    /\ rec.kind = "Globalization"
    /\ rec.object.policy = "ApplyNow"
    /\ rec.did.ret = "update failed"
    /\ PendingDeletion(globs, "g1")

----------------------------------------------------------------------------
(* Properties of Run *)

Started == run.locController > 0 \/ run.globController > 0

\* no controller runs before all four caches have synced, and once they run
\* Run returns only after the stop signal
StartsAfterSyncReturnsAfterStop ==
    /\ (Started \/ run.pc \in {"startLoc", "startGlob", "blocked"}) => run.synced = Caches
    /\ (Started /\ run.pc = "returned") => run.stopped

\* C17 as stated: no controller is started before the four caches have
\* synced; when the stop signal fires while a cache has not synced no
\* controller is ever started; once the controllers are started Run returns
\* only after the stop signal
C17_StopBeforeSyncNeverStarts ==
    /\ StartsAfterSyncReturnsAfterStop
    /\ run.stoppedUnsynced => (~Started /\ run.pc \in {"waiting", "returned"})

\* C17 amended: no controller is started before the four caches have synced;
\* when the wait for the caches ends on the stop signal Run returns without
\* ever starting a controller; once the controllers are started Run returns
\* only after the stop signal
C17_WaitEndedByStopNeverStarts ==
    /\ StartsAfterSyncReturnsAfterStop
    /\ run.waited = "stopped" => (~Started /\ run.pc = "returned" /\ run.stopped)
    /\ run.waited = "synced" => run.pc # "waiting"
    /\ run.pc = "returned" =>
            \/ run.waited = "stopped"
            \/ run.locController = run.workers /\ run.globController = run.workers

\* the stop signal ended the wait while the Manifest cache had not synced
C17_Witness ==
    /\ run.pc = "returned"
    /\ run.waited = "stopped"
    /\ run.synced = Caches \ {"Manifest"}

----------------------------------------------------------------------------
(* Properties of DefaultBinder.Bind *)

\* how often the name c stands in the list
Occurrences(list, c) == Cardinality({i \in 1..Len(list) : list[i] = c})

\* C24: when the update is accepted the stored Status.BindingClusters is the
\* given list in ascending string order, every name as often as it was
\* given, and Bind returns the nil status
C24_BindStoresSortedClusters ==
    (bind.called /\ bind.injectErr = "") =>
        LET bound == bind.stored.status.BindingClusters
        IN  /\ bind.stored = bind.sent
            /\ \A i, j \in 1..Len(bound) : i < j => ~StringLess(bound[j], bound[i])
            /\ Len(bound) = Len(bind.clusters)
            /\ \A c \in ClusterNames : Occurrences(bound, c) = Occurrences(bind.clusters, c)
            /\ bind.status = NilStatus

\* the clusters of the test, 03 given before 01, are stored 01 first
C24_Witness ==
    /\ bind.called
    /\ bind.injectErr = ""
    /\ bind.clusters = << <<0, 3>>, <<0, 1>> >>
    /\ bind.stored.status.BindingClusters = << <<0, 1>>, <<0, 3>> >>

\* C25: Bind returns an error status exactly when the update failed, the
\* status then carries the error of the update and the stored Subscription
\* has no binding
C25_BindReturnsUpdateError ==
    bind.called =>
        /\ bind.status # NilStatus <=> bind.injectErr # ""
        /\ bind.injectErr # "" =>
                /\ bind.status.code = "Error"
                /\ bind.status.err = bind.injectErr
                /\ bind.stored = testSubscription
                /\ bind.stored.status.BindingClusters = <<>>

\* the update of the binding to two clusters was refused
C25_Witness ==
    /\ bind.called
    /\ bind.injectErr = "binding error"
    /\ Len(bind.clusters) = 2
    /\ bind.sent.status.DesiredReleases = 2
    /\ bind.status = AsStatus("binding error")

----------------------------------------------------------------------------
(* Properties shared by the two handlers *)

\* two declarations the handlers cannot tell apart
Alike(a, b) == a.policy = b.policy /\ a.feed = b.feed /\ a.deleted = b.deleted

\* what the handler did for the declaration a is what the other handler does
\* for b: the same result, lookups and callbacks, the same events, each on
\* its own object, and the same update, each of its own copy
SameSteps(da, a, db, b) ==
    /\ da.ret = db.ret
    /\ da.reads = db.reads
    /\ da.chartCalls = db.chartCalls
    /\ da.manifestCalls = db.manifestCalls
    /\ Len(da.events) = Len(db.events)
    /\ \A i \in 1..Len(da.events) :
            /\ da.events[i].type = db.events[i].type
            /\ da.events[i].reason = db.events[i].reason
            /\ da.events[i].object = a.name
            /\ db.events[i].object = b.name
    /\ Len(da.updates) = Len(db.updates)
    /\ \A i \in 1..Len(da.updates) :
            /\ da.updates[i] = [a EXCEPT !.finalizers = @ \ {AppFinalizer}]
            /\ db.updates[i] = [b EXCEPT !.finalizers = @ \ {AppFinalizer}]

\* C26: what one handler did for a declaration is what the other handler
\* does, under the same answers of the environment, for every declaration of
\* the other kind with the same policy, Feed and deletion status
C26_HandlersAgree ==
    rec.called =>
        /\ rec.kind = "Localization" =>
                \A n \in DOMAIN globs :
                    Alike(rec.object, globs[n]) =>
                        SameSteps(rec.did, rec.object,
                                  handleGlobalization(globs[n], rec.answers.lookupFails,
                                        rec.answers.callbackFails, rec.answers.updateFails),
                                  globs[n])
        /\ rec.kind = "Globalization" =>
                \A n \in DOMAIN locs :
                    Alike(rec.object, locs[n]) =>
                        SameSteps(rec.did, rec.object,
                                  handleLocalization(locs[n], rec.answers.lookupFails,
                                        rec.answers.callbackFails, rec.answers.updateFails),
                                  locs[n])

\* a Localization being deleted was reconciled with a callback and an update
\* while a Globalization with the same policy and Feed is being deleted too
C26_Witness ==
    /\ rec.called
    /\ rec.kind = "Localization"
    /\ rec.object.deleted
    /\ rec.did.chartCalls # <<>>
    /\ rec.did.updates # <<>>
    /\ \E n \in DOMAIN globs : Alike(rec.object, globs[n])

\* the cache the reconciled declaration is kept in
StoreOf(kind, localizations, globalizations) ==
    IF kind = "Localization" THEN localizations ELSE globalizations

\* C27: a reconcile writes nothing to the declaration it was handed; the
\* object it sends in its update is that declaration but for the engine's
\* finalizer; and when the update fails the error is returned and the
\* declaration stays as it was
C27_ReconcileFrame ==
    [][(rec' # rec /\ rec'.called) =>
            LET o == rec'.object
                d == rec'.did
                before == StoreOf(rec'.kind, locs, globs)
                after == StoreOf(rec'.kind, locs', globs')
            IN  /\ before[o.name] = o
                /\ d.touched = <<>>
                /\ Len(d.updates) <= 1
                /\ \A i \in 1..Len(d.updates) :
                        /\ d.updates[i].finalizers = o.finalizers \ {AppFinalizer}
                        /\ [d.updates[i] EXCEPT !.finalizers = o.finalizers] = o
                /\ (d.updates # <<>> /\ rec'.answers.updateFails) => d.ret = "update failed"
                /\ (d.updates = <<>> \/ d.ret = "update failed") => after = before
                /\ StoreOf(rec'.kind, globs', locs') = StoreOf(rec'.kind, globs, locs)]_vars

\* the update that takes the engine's finalizer off a Localization holding
\* another finalizer too was refused, and the cache holds it as before
C27_Witness ==
    /\ rec.called
    /\ rec.kind = "Localization"
    /\ rec.did.ret = "update failed"
    /\ rec.did.updates # <<>>
    /\ rec.object.finalizers = {AppFinalizer, "example.com/hold"}
    /\ rec.did.updates[1].finalizers = {"example.com/hold"}
    /\ locs[rec.object.name] = rec.object

----------------------------------------------------------------------------
(* Properties of the two modes of ApplyOverridesToDescription *)

\* payloads Spec.Raw may hold before a Helm call: none, those of an earlier
\* call, or anything else
PriorRaw == {<<>>, applied.desc.raw, <<BadBytes>>}

\* Spec.Raw after a call on the Description d with the listers returning listed
RawAfter(d, listed) == ApplyOverridesToDescription(d, listed).desc.raw

\* a Helm call leaves one slot per chart reference, slot i holding the
\* overrides of chart i applied to the placeholder unless entry i failed,
\* whatever Spec.Raw held before the call
HelmRawFromChartsOnly ==
    /\ Len(applied.desc.raw) = Len(desc.charts)
    /\ \E outs \in Outcomes : Explains(outs)
    /\ \A listed \in RunListings(desc), prior \in PriorRaw :
            RawAfter([desc EXCEPT !.raw = prior], listed) = RawAfter(desc, listed)

\* C28: in Helm mode Spec.Raw is made of the chart references and their
\* overrides only, and so a second call on the Description the first call
\* left, with the declarations unchanged, gives the same Spec.Raw
C28_HelmRawRepeats ==
    (applied.called /\ desc.deployer = "Helm") =>
        /\ HelmRawFromChartsOnly
        /\ \A listed \in RunListings(applied.desc) :
                RawAfter(applied.desc, listed) = applied.desc.raw


\* the Description d with the payload of entry j replaced by other
WithEntry(d, j, other) == [d EXCEPT !.raw[j] = other]

\* C29: the call changes nothing of the Description but Spec.Raw; in Generic
\* mode Spec.Raw keeps its length, every entry holds the payload it had or
\* the result of patching that payload, and it holds the same when the
\* payload of any other entry is replaced
C29_OnlyRawEntryByEntry ==
    applied.called =>
        /\ [applied.desc EXCEPT !.raw = desc.raw] = desc
        /\ desc.deployer = "Generic" =>
                /\ Len(applied.desc.raw) = Len(desc.raw)
                /\ \E listed \in RunListings(desc) :
                        /\ \A idx \in 1..Len(desc.raw) :
                                LET out == EntryOutcome(idx, listed[idx])
                                IN  applied.desc.raw[idx] =
                                        IF out.err = "" THEN out.result ELSE desc.raw[idx]
                        /\ \A idx, j \in 1..Len(desc.raw), other \in RawChoices :
                                j # idx =>
                                    RawAfter(WithEntry(desc, j, other), listed)[idx] =
                                        applied.desc.raw[idx]

\* a Generic Description holds the same manifest twice and the call patched
\* both entries to the same result
C29_Witness ==
    /\ applied.called
    /\ desc.deployer = "Generic"
    /\ Len(desc.raw) = 2
    /\ desc.raw[1] = desc.raw[2]
    /\ applied.errs = <<>>
    /\ applied.desc.raw[1] # desc.raw[1]
    /\ applied.desc.raw[2] = applied.desc.raw[1]

----------------------------------------------------------------------------
(* Deletion of a declaration whose target is gone *)

\* C30: a reconcile of an ApplyNow declaration that is being deleted and
\* whose target does not exist invokes no callback, sends the update that
\* takes the engine's finalizer off, and returns what the update returned
C30_DeletionNotBlockedByMissingTarget ==
    (/\ rec.called
     /\ rec.object.policy = "ApplyNow"
     /\ rec.object.deleted
     /\ ~rec.answers.lookupFails
     /\ ResolveTarget(rec.object.feed) = "NotFound") =>
        /\ rec.did.chartCalls = <<>>
        /\ rec.did.manifestCalls = <<>>
        /\ Len(rec.did.updates) = 1
        /\ AppFinalizer \notin rec.did.updates[1].finalizers
        /\ rec.did.ret = IF rec.answers.updateFails THEN "update failed" ELSE ""

\* the ApplyNow Localization of the missing Deployment m2 was being deleted;
\* its reconcile looked the target up, sent the update and the object is gone
C30_Witness ==
    /\ rec.called
    /\ rec.kind = "Localization"
    /\ rec.object.policy = "ApplyNow"
    /\ rec.object.deleted
    /\ rec.object.feed = [kind |-> "Deployment", name |-> "m2"]
    /\ rec.did.reads = <<rec.object.feed>>
    /\ rec.did.ret = ""
    /\ rec.object.name \notin DOMAIN locs

----------------------------------------------------------------------------
(* Properties of the agent *)

\* C31: waitingForApproval installs the dedicated kubeconfig and namespace
\* and starts storing the credentials only when the request it read last is
\* approved
C31_InstallsOnlyWhenApproved ==
    (agent.installed # <<>> \/ agent.DedicatedNamespace # <<>> \/ agent.store # "idle") =>
        /\ agent.crr.result = "Approved"
        /\ \A i \in 1..Len(agent.installed) : agent.installed[i].result = "Approved"


\* the calls of bootstrapClusterRegistrationIfNeeded that failed
FailedAttempts == {i \in 1..Len(agent.attempts) : agent.attempts[i].failed}

\* C32: after a call that failed no later call comes with a read of the
\* Secret before it or with another client than that of the bootstrap token
\* (none when no kubeconfig could be made), tryToUseSecret stays false and
\* the dedicated kubeconfig stays reset until the approval; and
\* registerSelfCluster returns only after a call succeeded or with its
\* context done
C32_BootstrapTokenAfterFailure ==
    /\ \A i \in FailedAttempts, j \in 1..Len(agent.attempts) :
            i < j => /\ ~agent.attempts[j].consulted
                     /\ agent.attempts[j].token \in {BootstrapToken, ""}
    /\ FailedAttempts # {} => ~agent.tryToUseSecret
    /\ (FailedAttempts # {} /\ ~agent.succeeded) => agent.parentDedicatedKubeConfig.nil
    /\ agent.work \notin {"idle", "register", "waiting"} =>
            agent.succeeded \/ RunCtxDone(agent)

\* the first call went to the parent with the token of the Secret and
\* failed, the second one went with the bootstrap token and succeeded
C32_Witness ==
    /\ Len(agent.attempts) = 2
    /\ agent.attempts[1].consulted
    /\ agent.attempts[1].token = StoredToken
    /\ agent.attempts[1].failed
    /\ agent.attempts[2].token = BootstrapToken
    /\ agent.succeeded
    /\ ~RunCtxDone(agent)

\* C33: while the Secret records another parent URL than the configured one
\* no client is made of its token: every call goes with the bootstrap token
C33_ChangedParentURLIgnoresSecret ==
    (agent.secret.found /\ agent.secret.url # ParentURL) =>
        /\ agent.parentDedicatedKubeConfig.token # agent.secret.token
        /\ \A i \in 1..Len(agent.attempts) : agent.attempts[i].token \in {BootstrapToken, ""}

\* the Secret of a former parent was read and the registration went through
\* with the bootstrap token
C33_Witness ==
    /\ agent.secret = ParentClusterSecret(FormerParentURL, StoredToken)
    /\ Len(agent.attempts) = 1
    /\ agent.attempts[1].consulted
    /\ agent.attempts[1].token = BootstrapToken
    /\ agent.succeeded
    /\ agent.crr = ApprovedCRR

C35_WorkOnlyWhenLeading ==
    /\ agent.runs <= 1
    /\ agent.work # "idle" <=> agent.runs = 1
    /\ agent.leaderElect => (agent.runs = 1 => agent.lease # "none")
    /\ ~agent.leaderElect =>
            /\ agent.main # "idle" => agent.runs = 1
            /\ agent.main \in {"idle", "inline", "nil"}
            /\ agent.main = "nil" => (agent.ctxDone /\ agent.work = "done")

\* the elected agent has registered and started the status manager
C35_Witness ==
    /\ agent.leaderElect
    /\ agent.lease = "held"
    /\ agent.main = "leading"
    /\ agent.succeeded
    /\ agent.statusManager = "running"

\* C37: a call whose Create was answered AlreadyExists went on to wait for
\* the approval like one whose Create succeeded, and a call whose Create
\* failed otherwise returned the error without waiting
C37_AlreadyExistsIsSuccess ==
    /\ \A i \in 1..Len(agent.attempts) :
            LET try == agent.attempts[i]
            IN  /\ try.create \in {"created", "AlreadyExists"} => try.waited
                /\ try.create = "error" => (~try.waited /\ try.failed)
    /\ agent.work = "waiting" =>
            agent.attempts[Len(agent.attempts)].create \in {"created", "AlreadyExists"}

\* the request was there already and the registration went through
C37_Witness ==
    /\ Len(agent.attempts) = 1
    /\ agent.attempts[1].create = "AlreadyExists"
    /\ agent.attempts[1].waited
    /\ agent.succeeded
    /\ agent.crr = ApprovedCRR


\* the writes of storeParentClusterCredentials
Writes == agent.writes

\* no write follows one that was accepted, and every Update follows a Create
\* that was answered AlreadyExists
WritesInOrder ==
    /\ \A i \in 1..Len(Writes) : Writes[i].answer = "ok" => i = Len(Writes)
    /\ \A i \in 1..Len(Writes) :
            Writes[i].op = "Update" =>
                (i > 1 /\ Writes[i - 1].op = "Create" /\ Writes[i - 1].answer = "AlreadyExists")

LastWriteAccepted == Writes # <<>> /\ Writes[Len(Writes)].answer = "ok"

\* C36 as claimed: the loop of storeParentClusterCredentials ends only with
\* a write that was accepted
C36_StoreEndsOnlyWritten ==
    /\ WritesInOrder
    /\ agent.store \in {"done", "stopped"} => LastWriteAccepted

\* C36 amended: the loop ends with a write that was accepted or because
\* agent.ctx is done; it writes nothing after the write that was accepted and
\* sends an Update only after a Create answered AlreadyExists; and once
\* started it ends, as long as the process lives
C36_StoreEndsWrittenOrCancelled ==
    /\ [](/\ WritesInOrder
          /\ agent.store = "done" => LastWriteAccepted
          /\ agent.store = "stopped" => (agent.ctxDone /\ ~LastWriteAccepted)
          /\ LastWriteAccepted => agent.store = "done")
    /\ (agent.store = "loop") ~> (agent.store \in {"done", "stopped"} \/ ~Alive(agent))

\* a round failed, the next one found the Secret there and updated it
C36_Witness ==
    /\ agent.store = "done"
    /\ Len(Writes) = 3
    /\ Writes[1] = [op |-> "Create", answer |-> "error"]
    /\ Writes[2] = [op |-> "Create", answer |-> "AlreadyExists"]
    /\ Writes[3] = [op |-> "Update", answer |-> "ok"]
    /\ agent.secret = ParentClusterSecret(ParentURL, DedicatedToken)

----------------------------------------------------------------------------
(* Properties of the helm helpers *)

\* the release name a HelmRelease asks for: Spec.ReleaseName if set, else the
\* name of the object
WantedName ==
    IF helm.hr.Spec.ReleaseName = <<>> THEN helm.hr.Name
    ELSE helm.hr.Spec.ReleaseName[1]

\* for each of the five things compared, whether the installed release and
\* the HelmRelease with its values agree on it
Same ==
    [name |-> helm.rel.Name = WantedName,
     namespace |-> helm.rel.Namespace = helm.hr.Spec.TargetNamespace,
     chart |-> helm.rel.Chart.Metadata.Name = helm.hr.Spec.Chart,
     version |-> helm.rel.Chart.Metadata.Version = helm.hr.Spec.ChartVersion,
     config |-> helm.rel.Config = helm.vals]

\* what they agree on
Agreed == {f \in DOMAIN Same : Same[f]}

\* C38: ReleaseNeedsUpgrade returns false exactly when the name of the
\* installed release is the release name of the HelmRelease (Spec.ReleaseName
\* if set, else the name of the object), its namespace is the target
\* namespace, its chart name and chart version are those of the spec and its
\* config equals the values given; one difference, in any of the five, makes
\* it return true
C38_NeedsUpgradeUnlessAllEqual ==
    helm.op = "ReleaseNeedsUpgrade" =>
        /\ ~helm.needsUpgrade <=> Agreed = DOMAIN Same
        /\ Cardinality(Agreed) = 4 => helm.needsUpgrade

\* ReleaseNeedsUpgrade returned false for a HelmRelease whose Spec.ReleaseName
\* is set and is not the name of the object, and for values that are not empty
C38_Witness ==
    /\ helm.op = "ReleaseNeedsUpgrade"
    /\ ~helm.needsUpgrade
    /\ helm.hr.Spec.ReleaseName # <<>>
    /\ helm.hr.Spec.ReleaseName[1] # helm.hr.Name
    /\ ~helm.vals.nil
    /\ DOMAIN helm.vals.entries # {}

\* the positions of msg at which the text sub starts
StartsOf(msg, sub) ==
    {i \in 1..Len(msg) :
        /\ i + Len(sub) - 1 <= Len(msg)
        /\ \A j \in 1..Len(sub) : msg[i + j - 1] = sub[j]}

\* C39: when the uninstall fails with a message that contains "Release not
\* loaded", UninstallRelease reports success; every other error of the
\* uninstall is returned to the caller as it is
C39_ReleaseNotLoadedIsSuccess ==
    helm.op = "UninstallRelease" /\ ~helm.answered.nil =>
        IF StartsOf(helm.answered.msg, ReleaseNotLoaded) # {}
            THEN helm.returned.nil
            ELSE helm.returned = helm.answered

\* the uninstall failed with "uninstall: Release not loaded: r1" and
\* UninstallRelease returned nil
C39_Witness ==
    /\ helm.op = "UninstallRelease"
    /\ ~helm.answered.nil
    /\ StartsOf(helm.answered.msg, ReleaseNotLoaded) = {12}
    /\ Len(helm.answered.msg) = 33
    /\ helm.returned.nil
    /\ helm.uninstalled = WantedName

====
